---- MODULE Spec2Model ----
(***************************************************************************)
(* The write-ahead journal of upscaledb (3journal/journal.cc): two         *)
(* append-only log files with per-file buffers and transaction counters,   *)
(* the rotation between them, and the two-pass recovery (physical redo of  *)
(* changesets, logical redo of transaction entries).                       *)
(*                                                                         *)
(* The journal's functions are operators over a record j holding the       *)
(* Journal object's fields; every action calls them the way the engine     *)
(* does.  A file is a sequence of entries plus a byte length (fsize), so   *)
(* that a crash can leave a torn tail and the readers, which work by byte  *)
(* offset, see exactly what pread would give them.                         *)
(***************************************************************************)
EXTENDS Integers, Sequences, FiniteSets, TLC

\* ------------------------------------------------------------------ bounds
\* Highest LSN the engine hands out (bounds the length of a run).
MaxLsn == 5
\* Highest id of a named transaction.
MaxTxn == 2
\* Keys are 1..MaxKey; key k lives on page k of the page device.
MaxKey == 2
\* In the endless runs (SpecLive): the value at which a counter of the journal
\* stops growing, the most transactions the manager holds at a time, and the
\* most changesets that wait for their pages.
CounterCap == 4
MaxQueue == 2
MaxPending == 1
\* In the runs with a compressor (SpecCompress): appends per run.
MaxAppends == 2

\* --------------------------------------------------------- program constants
\* journal_switch_threshold of the environment's configuration.
threshold_ == 2
\* High-water mark of a file's buffer, in bytes.
kBufferLimit == 100
\* sizeof(PJournalEntry): lsn u64, txn_id u64, followup u32, dbname u16, type u8, reserved u8
\* padded to 32 bytes.
SizeofEntry == 32
\* sizeof(PJournalEntryInsert) - 1: five u32 fields.
SizeofInsertHdr == 20
\* sizeof(PJournalEntryErase) - 1: four 32-bit fields.
SizeofEraseHdr == 16
\* sizeof(PJournalEntryChangeset): num_pages u32, last_blob_page u64.
SizeofChangeset == 12
\* sizeof(PJournalEntryPageHeader): address u64, compressed_size u32.
SizeofPageHeader == 12
\* page_size_bytes of the environment's configuration.
page_size == 64
\* key->size of a UPS_TYPE_UINT32 key; records are empty.
KeySize == 4
\* name of the one database
DbName == 1

Keys == 1..MaxKey
TxnIds == 1..MaxTxn
Fds == {0, 1}

kEntryTypeTxnBegin == "TxnBegin"
kEntryTypeTxnAbort == "TxnAbort"
kEntryTypeTxnCommit == "TxnCommit"
kEntryTypeInsert == "Insert"
kEntryTypeErase == "Erase"
kEntryTypeChangeset == "Changeset"

\* ------------------------------------------------------------------ state
VARIABLES
  current_fd,     \* Journal::current_fd_
  open_txn,       \* Journal::open_txn_[2]
  closed_txn,     \* Journal::closed_txn_[2]
  buffer,         \* Journal::buffer_[2]: entries appended, not yet written
  files,          \* Journal::files_[2]: entries written to the file
  fsize,          \* byte length of each file (less than its entries after a torn write)
  durable,        \* bytes of each file that an fsync has made durable
  disable_logging, \* Journal::disable_logging_
  fsync_flag,     \* UPS_ENABLE_FSYNC of the environment
  lsn,            \* the engine's next LSN
  next_txn,       \* the engine's next transaction id
  queue,          \* the transaction manager's list, oldest first
  mem,            \* keys in the btree pages in memory (all flushed transactions)
  pending,        \* changesets whose pages the worker has not written yet
  device,         \* the page device: device[k] = 1 iff page k holds key k
  phase,          \* "running", "closed", "closed_noclear", "crashed", "recovered", "failed",
                  \* "recovered_twice", "failed_twice"
  hist,           \* history: every entry appended, in call order, with its file
  trunc,          \* history: open_txn of a file at each truncation of it
  must_have,      \* history: keys a returned commit has made part of the database
  crash,          \* history: the journal files and the device as the crash left them
  rec             \* recovery: what recover did (watermark, entries replayed, ...)

jvars == <<current_fd, open_txn, closed_txn, buffer, files, fsize, durable, trunc,
          disable_logging>>
evars == <<lsn, next_txn, queue, mem, pending, device>>
hvars == <<hist, must_have, crash, rec>>
vars == <<jvars, evars, hvars, fsync_flag, phase>>

\* The Journal object as one value.
J == [current_fd |-> current_fd, open_txn |-> open_txn, closed_txn |-> closed_txn,
      buffer |-> buffer, files |-> files, fsize |-> fsize, durable |-> durable,
      trunc |-> trunc, disable_logging |-> disable_logging]

SetJ(j) ==
  /\ current_fd' = j.current_fd
  /\ open_txn' = j.open_txn
  /\ closed_txn' = j.closed_txn
  /\ buffer' = j.buffer
  /\ files' = j.files
  /\ fsize' = j.fsize
  /\ durable' = j.durable
  /\ trunc' = j.trunc
  /\ disable_logging' = j.disable_logging

\* ---------------------------------------------------------------- entries
\* An entry as the appends build it: the fields of its header, its payload,
\* and bytes, the number of payload bytes appended after the header.
Entry(type, l, txn_id, dbname, followup, payload) ==
  [type |-> type, lsn |-> l, txn_id |-> txn_id, dbname |-> dbname,
   followup_size |-> followup, payload |-> payload, bytes |-> followup]

\* Bytes of payload that follow an entry's header in a buffer or file.
PayloadBytes(e) == e.bytes

\* Bytes an entry occupies in a buffer or file.
ESize(e) == SizeofEntry + PayloadBytes(e)

RECURSIVE Bytes(_)
Bytes(s) == IF s = <<>> THEN 0 ELSE ESize(Head(s)) + Bytes(Tail(s))

\* Byte offset at which entry i of s starts.
RECURSIVE StartOf(_, _)
StartOf(s, i) == IF i <= 1 THEN 0 ELSE StartOf(s, i - 1) + ESize(s[i - 1])

\* Index of the entry of s that starts at byte offset off (0: none does).
IndexAt(s, off) ==
  LET I == {i \in 1..Len(s) : StartOf(s, i) = off}
  IN IF I = {} THEN 0 ELSE CHOOSE i \in I : TRUE

\* ------------------------------------------------- journal: buffers and files
\* Journal::append_entry: concatenates the chunks of one entry into buffer_[idx].
append_entry(j, idx, e) == [j EXCEPT !.buffer[idx] = Append(@, e)]

\* Journal::flush_buffer: writes buffer_[idx] to files_[idx], empties the buffer,
\* and calls fsync when asked to.
flush_buffer(j, idx, fsync) ==
  LET size == j.fsize[idx] + Bytes(j.buffer[idx])
  IN [j EXCEPT !.files[idx] = @ \o j.buffer[idx],
               !.fsize[idx] = size,
               !.buffer[idx] = <<>>,
               !.durable[idx] = IF fsync THEN size ELSE @]

\* Journal::maybe_flush_buffer: flushes once the buffer exceeds the high-water mark.
maybe_flush_buffer(j, idx) ==
  IF Bytes(j.buffer[idx]) > kBufferLimit THEN flush_buffer(j, idx, FALSE) ELSE j

\* Journal::clear_file: truncates the file, resets its counters and its buffer.
clear_file(j, idx) ==
  [j EXCEPT !.files[idx] = <<>>,
            !.fsize[idx] = 0,
            !.durable[idx] = 0,
            !.open_txn[idx] = 0,
            !.closed_txn[idx] = 0,
            !.buffer[idx] = <<>>,
            !.trunc = @ \cup {<<idx, j.open_txn[idx]>>}]

\* Journal::clear: clears both files.
clear(j) == clear_file(clear_file(j, 0), 1)

\* ------------------------------------------------------- journal: rotation
\* switch_files_maybe as it would be if it recycled the other file without
\* looking at its open transactions.
switch_files_maybe_unchecked(j) ==
  LET other == IF j.current_fd # 0 THEN 0 ELSE 1
  IN IF j.open_txn[j.current_fd] + j.closed_txn[j.current_fd] < threshold_
       THEN j
       ELSE [clear_file(j, other) EXCEPT !.current_fd = other]

\* Journal::switch_files_maybe; the value returned is current_fd of the result.
switch_files_maybe(j) ==
  LET other == IF j.current_fd # 0 THEN 0 ELSE 1
  IN IF j.open_txn[j.current_fd] + j.closed_txn[j.current_fd] < threshold_
       THEN j
       ELSE IF j.open_txn[other] = 0
              THEN [clear_file(j, other) EXCEPT !.current_fd = other]
              ELSE j

\* -------------------------------------------------------- journal: appends
\* Journal::append_txn_begin (the transaction has no name); the log_desc given
\* to the transaction is current_fd of the result.
append_txn_begin(j, txn_id, l) ==
  IF j.disable_logging THEN j
  ELSE LET j1 == switch_files_maybe(j)
           cur == j1.current_fd
           entry == Entry(kEntryTypeTxnBegin, l, txn_id, 0, 0, <<>>)
           j2 == maybe_flush_buffer(append_entry(j1, cur, entry), cur)
       IN [j2 EXCEPT !.open_txn[cur] = @ + 1, !.current_fd = cur]

\* append_txn_abort as it would be if it left the counters alone.
append_txn_abort_uncounted(j, txn_id, log_desc, l) ==
  LET entry == Entry(kEntryTypeTxnAbort, l, txn_id, 0, 0, <<>>)
  IN maybe_flush_buffer(append_entry(j, log_desc, entry), log_desc)

\* Journal::append_txn_abort
append_txn_abort(j, txn_id, log_desc, l) ==
  IF j.disable_logging THEN j
  ELSE LET idx == log_desc
           entry == Entry(kEntryTypeTxnAbort, l, txn_id, 0, 0, <<>>)
           j1 == [j EXCEPT !.open_txn[idx] = @ - 1, !.closed_txn[idx] = @ + 1]
       IN maybe_flush_buffer(append_entry(j1, idx, entry), idx)

\* append_txn_commit as it would be if it wrote its entry straight to the file,
\* past the entries still waiting in the buffer.
append_txn_commit_unbuffered(j, txn_id, log_desc, l, fsync) ==
  LET idx == log_desc
      entry == Entry(kEntryTypeTxnCommit, l, txn_id, 0, 0, <<>>)
  IN [j EXCEPT !.files[idx] = Append(@, entry),
               !.fsize[idx] = @ + ESize(entry),
               !.durable[idx] = IF fsync THEN j.fsize[idx] + ESize(entry) ELSE @]

\* append_txn_commit as it would be with the soft flush of the other appends.
append_txn_commit_soft(j, txn_id, log_desc, l, fsync) ==
  LET idx == log_desc
      entry == Entry(kEntryTypeTxnCommit, l, txn_id, 0, 0, <<>>)
  IN maybe_flush_buffer(append_entry(j, idx, entry), idx)

\* Journal::append_txn_commit
append_txn_commit(j, txn_id, log_desc, l, fsync) ==
  IF j.disable_logging THEN j
  ELSE LET idx == log_desc
           entry == Entry(kEntryTypeTxnCommit, l, txn_id, 0, 0, <<>>)
       IN flush_buffer(append_entry(j, idx, entry), idx, fsync)

\* The file an insert or erase goes to, and the counters after choosing it:
\* a temporary transaction (txn_id 0) rotates and counts as closed at once.
select_file(j, txn_id, log_desc) ==
  IF txn_id = 0
    THEN LET j1 == switch_files_maybe(j)
         IN [j |-> [j1 EXCEPT !.closed_txn[j1.current_fd] = @ + 1],
             idx |-> j1.current_fd]
    ELSE [j |-> j, idx |-> log_desc]

\* Journal::append_insert (no compressor configured, empty record)
append_insert(j, txn_id, log_desc, key, l) ==
  IF j.disable_logging THEN j
  ELSE LET s == select_file(j, txn_id, log_desc)
           entry == Entry(kEntryTypeInsert, l, txn_id, DbName,
                          SizeofInsertHdr + KeySize + 0, <<key>>)
       IN maybe_flush_buffer(append_entry(s.j, s.idx, entry), s.idx)

\* Journal::append_erase (no compressor configured)
append_erase(j, txn_id, log_desc, key, l) ==
  IF j.disable_logging THEN j
  ELSE LET s == select_file(j, txn_id, log_desc)
           entry == Entry(kEntryTypeErase, l, txn_id, DbName,
                          SizeofEraseHdr + KeySize, <<key>>)
       IN maybe_flush_buffer(append_entry(s.j, s.idx, entry), s.idx)

\* Journal::append_changeset_page: bytes one page adds to the followup.
append_changeset_page(page) == page_size + SizeofPageHeader

RECURSIVE SumPages(_)
SumPages(pages) ==
  IF pages = <<>> THEN 0
  ELSE append_changeset_page(Head(pages)) + SumPages(Tail(pages))

\* Journal::append_changeset up to the last page: the header, written with
\* followup_size = sizeof(PJournalEntryChangeset), the changeset and the pages
\* are in the buffer of the current file.
changeset_placeholder(j, pages, l) ==
  LET j1 == switch_files_maybe(j)
      entry == [Entry(kEntryTypeChangeset, l, 0, 0, SizeofChangeset, pages)
                  EXCEPT !.bytes = SizeofChangeset + SumPages(pages)]
  IN append_entry(j1, j1.current_fd, entry)

\* Journal::append_changeset up to the patch of the header: the header at
\* entry_position, the last entry of the buffer, is overwritten with the
\* followup_size the pages added up to; nothing is written to the file.
changeset_buffered(j, pages, l) ==
  LET j1 == changeset_placeholder(j, pages, l)
      entry_position == Len(j1.buffer[j1.current_fd])
  IN [j1 EXCEPT !.buffer[j1.current_fd][entry_position].followup_size =
                   SizeofChangeset + SumPages(pages)]

\* Journal::append_changeset: the journal it leaves.
append_changeset(j, pages, l, fsync) ==
  IF j.disable_logging THEN j
  ELSE LET j1 == changeset_buffered(j, pages, l)
           j2 == flush_buffer(j1, j1.current_fd, fsync)
       IN [j2 EXCEPT !.open_txn[j2.current_fd] = @ + 1]

\* Journal::append_changeset: the value it returns.
append_changeset_fd(j, pages, l, fsync) ==
  IF j.disable_logging THEN -1
  ELSE append_changeset(j, pages, l, fsync).current_fd

\* Journal::changeset_flushed
changeset_flushed(j, fd_index) == [j EXCEPT !.closed_txn[fd_index] = @ + 1]

\* Journal::transaction_flushed
transaction_flushed(j, log_desc) ==
  IF j.disable_logging THEN j
  ELSE [j EXCEPT !.open_txn[log_desc] = @ - 1, !.closed_txn[log_desc] = @ + 1]

\* Journal::close: flushes both buffers (noclear) or clears both files, then
\* closes the files and drops the buffers.
close(j, noclear) ==
  LET j1 == IF noclear THEN flush_buffer(flush_buffer(j, 0, FALSE), 1, FALSE)
            ELSE clear(j)
  IN [j1 EXCEPT !.buffer = [i \in Fds |-> <<>>]]

\* ------------------------------------------------------- recovery: reading
Other(fd) == IF fd = 0 THEN 1 ELSE 0

\* File::pread of len bytes at off succeeds iff the file holds them.
CanRead(size, off, len) == off + len <= size

\* The entry whose header starts at byte off of a file.
EntryAt(ents, off) == ents[IndexAt(ents, off)]

NoEntry == Entry("None", 0, 0, 0, 0, <<>>)
FreshIterator == [fdstart |-> 0, fdidx |-> 0, offset |-> 0]

\* read_entry as it would be if it ended the iteration at the end of the first
\* file instead of switching to the other one.
read_entry_one_file(cur_fd, fs, sz, iter) ==
  LET it1 == IF iter.offset = 0
               THEN [iter EXCEPT !.fdstart = IF cur_fd = 0 THEN 1 ELSE 0,
                                 !.fdidx = IF cur_fd = 0 THEN 1 ELSE 0]
               ELSE iter
      filesize == sz[it1.fdidx]
  IN IF filesize = it1.offset \/ ~CanRead(filesize, it1.offset, SizeofEntry)
       THEN [iter |-> it1, entry |-> NoEntry]
     ELSE LET e == EntryAt(fs[it1.fdidx], it1.offset)
              it3 == [it1 EXCEPT !.offset = @ + SizeofEntry]
          IN IF ~CanRead(filesize, it3.offset, e.followup_size)
               THEN [iter |-> it3, entry |-> [e EXCEPT !.lsn = 0]]
             ELSE [iter |-> [it3 EXCEPT !.offset = @ + e.followup_size], entry |-> e]

\* Journal::read_entry: the iterator after the call and the entry read; an
\* entry with lsn 0 ends the iteration.
read_entry(cur_fd, fs, sz, iter) ==
  LET it1 == IF iter.offset = 0
               THEN [iter EXCEPT !.fdstart = IF cur_fd = 0 THEN 1 ELSE 0,
                                 !.fdidx = IF cur_fd = 0 THEN 1 ELSE 0]
               ELSE iter
      eof1 == sz[it1.fdidx] = it1.offset
      it2 == IF eof1 /\ it1.fdstart = it1.fdidx
               THEN [it1 EXCEPT !.fdidx = IF it1.fdidx = 1 THEN 0 ELSE 1, !.offset = 0]
               ELSE it1
      filesize == sz[it2.fdidx]
  IN IF eof1 /\ it1.fdstart # it1.fdidx THEN [iter |-> it1, entry |-> NoEntry]
     ELSE IF filesize = it2.offset THEN [iter |-> it2, entry |-> NoEntry]
     ELSE IF ~CanRead(filesize, it2.offset, SizeofEntry)
       THEN [iter |-> it2, entry |-> NoEntry]
     ELSE LET e == EntryAt(fs[it2.fdidx], it2.offset)
              it3 == [it2 EXCEPT !.offset = @ + SizeofEntry]
          IN IF e.followup_size = 0 THEN [iter |-> it3, entry |-> e]
             ELSE IF ~CanRead(filesize, it3.offset, e.followup_size)
               THEN [iter |-> it3, entry |-> [e EXCEPT !.lsn = 0]]
             ELSE [iter |-> [it3 EXCEPT !.offset = @ + e.followup_size], entry |-> e]

\* Every entry the recovery iterator yields, from a fresh iterator until it
\* reports LSN 0.
RECURSIVE read_all(_, _, _, _)
read_all(cur_fd, fs, sz, iter) ==
  LET rd == read_entry(cur_fd, fs, sz, iter)
  IN IF rd.entry.lsn = 0 THEN <<>>
     ELSE <<rd.entry>> \o read_all(cur_fd, fs, sz, rd.iter)

\* ------------------------------------------------- recovery: physical redo
\* Journal::scan_for_oldest_changeset: LSN of the first changeset of a file, 0 if
\* it has none or a read fails first.
RECURSIVE scan_from(_, _, _)
scan_from(ents, size, off) ==
  IF ~(off < size) THEN 0
  ELSE IF ~CanRead(size, off, SizeofEntry) THEN 0
  ELSE LET entry == EntryAt(ents, off)
       IN IF entry.lsn = 0 THEN 0
          ELSE IF entry.type = kEntryTypeChangeset THEN entry.lsn
          ELSE scan_from(ents, size, off + SizeofEntry + entry.followup_size)

scan_for_oldest_changeset(ents, size) == scan_from(ents, size, 0)

\* The page loop of redo_all_changesets: page i of the changeset, whose page
\* header starts at byte off.
RECURSIVE redo_pages(_, _, _, _, _)
redo_pages(pages, i, size, off, dev) ==
  IF i > Len(pages) THEN [dev |-> dev, off |-> off, failed |-> FALSE]
  ELSE IF ~CanRead(size, off, SizeofPageHeader)
    THEN [dev |-> dev, off |-> off, failed |-> TRUE]
  ELSE IF ~CanRead(size, off + SizeofPageHeader, page_size)
    THEN [dev |-> dev, off |-> off, failed |-> TRUE]
  ELSE redo_pages(pages, i + 1, size, off + SizeofPageHeader + page_size,
                  [dev EXCEPT ![pages[i].address] = pages[i].data])

\* Journal::redo_all_changesets: writes the pages of every changeset of a file to
\* the device; a failed read propagates (failed) with the pages written so far.
RECURSIVE redo_from(_, _, _, _, _)
redo_from(ents, size, off, dev, max_lsn) ==
  IF ~(off < size) THEN [max_lsn |-> max_lsn, dev |-> dev, failed |-> FALSE]
  ELSE IF ~CanRead(size, off, SizeofEntry)
    THEN [max_lsn |-> max_lsn, dev |-> dev, failed |-> TRUE]
  ELSE LET entry == EntryAt(ents, off)
       IN IF entry.type # kEntryTypeChangeset
            THEN redo_from(ents, size, off + SizeofEntry + entry.followup_size,
                           dev, max_lsn)
          ELSE IF ~CanRead(size, off + SizeofEntry, SizeofChangeset)
            THEN [max_lsn |-> entry.lsn, dev |-> dev, failed |-> TRUE]
          ELSE LET r == redo_pages(entry.payload, 1, size,
                                   off + SizeofEntry + SizeofChangeset, dev)
               IN IF r.failed
                    THEN [max_lsn |-> entry.lsn, dev |-> r.dev, failed |-> TRUE]
                    ELSE redo_from(ents, size, r.off, r.dev, entry.lsn)

redo_all_changesets(ents, size, dev) == redo_from(ents, size, 0, dev, 0)

\* The watermark as it would be if only the file redone first counted.
Max_of_first(a, b) == a

Max(a, b) == IF a > b THEN a ELSE b

\* recover_changeset as it would be if it redid the file with the newer
\* changesets first.
recover_changeset_newest_first(cur_fd, fs, sz, dev) ==
  LET lsn1 == scan_for_oldest_changeset(fs[0], sz[0])
      lsn2 == scan_for_oldest_changeset(fs[1], sz[1])
      cur == IF lsn1 < lsn2 THEN 1 ELSE 0
      r1 == redo_all_changesets(fs[cur], sz[cur], dev)
      r2 == redo_all_changesets(fs[Other(cur)], sz[Other(cur)], r1.dev)
  IN IF lsn1 = 0 /\ lsn2 = 0
       THEN [start_lsn |-> 0, current_fd |-> cur_fd, dev |-> dev, failed |-> FALSE]
     ELSE IF r1.failed
       THEN [start_lsn |-> 0, current_fd |-> cur, dev |-> r1.dev, failed |-> TRUE]
     ELSE [start_lsn |-> Max(r1.max_lsn, r2.max_lsn), current_fd |-> cur,
           dev |-> r2.dev, failed |-> r2.failed]

\* Journal::recover_changeset: the watermark, current_fd_ afterwards, the device
\* afterwards, and whether a read failure propagated.
recover_changeset(cur_fd, fs, sz, dev) ==
  LET lsn1 == scan_for_oldest_changeset(fs[0], sz[0])
      lsn2 == scan_for_oldest_changeset(fs[1], sz[1])
      cur == IF lsn1 < lsn2 THEN 0 ELSE 1
      r1 == redo_all_changesets(fs[cur], sz[cur], dev)
      r2 == redo_all_changesets(fs[Other(cur)], sz[Other(cur)], r1.dev)
  IN IF lsn1 = 0 /\ lsn2 = 0
       THEN [start_lsn |-> 0, current_fd |-> cur_fd, dev |-> dev, failed |-> FALSE]
     ELSE IF r1.failed
       THEN [start_lsn |-> 0, current_fd |-> cur, dev |-> r1.dev, failed |-> TRUE]
     ELSE [start_lsn |-> Max(r1.max_lsn, r2.max_lsn), current_fd |-> cur,
           dev |-> r2.dev, failed |-> r2.failed]

\* ------------------------------------------------------------ the engine
\* What the journal's callers do, as far as recovery depends on it: the
\* transaction manager's list of transactions (a temporary transaction has id
\* 0 and is committed at once), the operations each carries, and the page of
\* each key.  An operation is <<"ins", k>> or <<"era", k>>.
Item(id, st, ops, log_desc) == [id |-> id, st |-> st, ops |-> ops, log_desc |-> log_desc]

ApplyOp(db, op) == [db EXCEPT ![op[2]] = IF op[1] = "ins" THEN 1 ELSE 0]

RECURSIVE ApplyOps(_, _)
ApplyOps(db, ops) ==
  IF ops = <<>> THEN db ELSE ApplyOps(ApplyOp(db, Head(ops)), Tail(ops))

\* The database as flushing every committed transaction of the list makes it.
RECURSIVE CommittedView(_, _)
CommittedView(db, items) ==
  IF items = <<>> THEN db
  ELSE CommittedView(IF Head(items).st = "committed"
                       THEN ApplyOps(db, Head(items).ops) ELSE db,
                     Tail(items))

OpsOf(items, id) ==
  LET I == {i \in 1..Len(items) : items[i].id = id /\ id # 0}
  IN IF I = {} THEN <<>> ELSE items[CHOOSE i \in I : TRUE].ops

\* The database as transaction id sees it (id 0: a temporary transaction).
ViewOf(db, items, id) == ApplyOps(CommittedView(db, items), OpsOf(items, id))

KeysOf(ops) == {ops[i][2] : i \in 1..Len(ops)}

\* Another transaction that is still active has touched key k.
Conflict(items, id, k) ==
  \E i \in 1..Len(items) :
    items[i].st = "active" /\ items[i].id # id /\ k \in KeysOf(items[i].ops)

\* Position of the live transaction id in the list (0: none), as get_txn finds it.
get_txn(items, id) ==
  LET I == {i \in 1..Len(items) : items[i].id = id /\ id # 0}
  IN IF I = {} THEN 0 ELSE CHOOSE i \in I : TRUE

\* Number of leading transactions of the list that are committed or aborted.
RECURSIVE FinishedPrefix(_)
FinishedPrefix(items) ==
  IF items = <<>> \/ Head(items).st = "active" THEN 0
  ELSE 1 + FinishedPrefix(Tail(items))

RECURSIVE SeqOf(_)
SeqOf(S) ==
  IF S = {} THEN <<>>
  ELSE LET m == CHOOSE x \in S : \A y \in S : x <= y
       IN <<m>> \o SeqOf(S \ {m})

\* Keys touched by the committed transactions among the first n of the list.
RECURSIVE Touched(_, _)
Touched(items, n) ==
  IF n = 0 THEN {}
  ELSE Touched(items, n - 1)
         \cup (IF items[n].st = "committed" THEN KeysOf(items[n].ops) ELSE {})

\* The pages of a changeset: one per touched key, with the page's new content.
PagesOf(db, keys) ==
  LET ks == SeqOf(keys)
  IN [i \in 1..Len(ks) |-> [address |-> ks[i], data |-> db[ks[i]]]]

\* transaction_flushed for every named committed transaction among the first n.
RECURSIVE FlushedCounters(_, _, _)
FlushedCounters(j, items, n) ==
  IF n = 0 THEN j
  ELSE LET j1 == FlushedCounters(j, items, n - 1)
       IN IF items[n].st = "committed" /\ items[n].id # 0
            THEN transaction_flushed(j1, items[n].log_desc)
            ELSE j1

\* The entry with LSN l in the journal's buffers and files, with its file.
FindLsn(j, l) ==
  LET fd == CHOOSE f \in Fds :
              \E i \in 1..Len(j.files[f] \o j.buffer[f]) :
                (j.files[f] \o j.buffer[f])[i].lsn = l
      all == j.files[fd] \o j.buffer[fd]
  IN [fd |-> fd, e |-> all[CHOOSE i \in 1..Len(all) : all[i].lsn = l]]

\* -------------------------------------------------- recovery: logical redo
\* The state of recover_journal's loop: the iterator, the transactions begun so
\* far (as the engine holds them), the entries applied, and the status st.
ReplayStart ==
  [it |-> FreshIterator, items |-> <<>>, trace |-> <<>>, st |-> "ok", thrown |-> FALSE]

\* Journal::get_db: TRUE if it returns the database of this name, FALSE if it
\* throws because open_db fails; dbs are the names open_db can open.
get_db(dbs, dbname) == dbname \in dbs

\* The exception get_db throws out of the loop of recover_journal.
get_db_throws(r) == [r EXCEPT !.st = "database_not_found", !.thrown = TRUE]

\* The engine's answer to a replayed insert or erase of key k by transaction id
\* (0: without a transaction), on the database db that physical redo left.
replay_op(r, db, id, op, k) ==
  LET i == get_txn(r.items, id)
      seen == ViewOf(db, r.items, id)[k]
  IN IF i # 0 /\ r.items[i].st # "active" THEN [r EXCEPT !.st = "inv_parameter"]
     ELSE IF Conflict(r.items, id, k) THEN [r EXCEPT !.st = "txn_conflict"]
     ELSE IF op = "ins" /\ seen = 1 THEN [r EXCEPT !.st = "duplicate_key"]
     ELSE IF op = "era" /\ seen = 0 THEN [r EXCEPT !.st = "key_not_found"]
     ELSE IF i # 0 THEN [r EXCEPT !.items[i].ops = Append(@, <<op, k>>)]
     ELSE [r EXCEPT !.items = Append(@, Item(0, "committed", <<<<op, k>>>>, 0))]

\* ups_txn_commit / ups_txn_abort of the transaction get_txn found.
replay_end(r, id, st) ==
  LET i == get_txn(r.items, id)
  IN IF i = 0 \/ r.items[i].st # "active" THEN [r EXCEPT !.st = "inv_parameter"]
     ELSE [r EXCEPT !.items[i].st = st]

\* The status st the engine reported for the entry just re-applied, noted with
\* that entry.
answered(x) == [x EXCEPT !.trace[Len(x.trace)].st = x.st]

\* The status of a replayed erase as it would be if nothing were forgiven.
erase_status_strict(x) == x

\* The status of a replayed erase: the key may have been erased already when
\* the changeset was flushed.
erase_status(x) == IF x.st = "key_not_found" THEN [x EXCEPT !.st = "ok"] ELSE x

\* replay_entry as it would be if it re-applied inserts and erases whatever
\* their LSN.
replay_entry_unskipped(r, db, entry, fd, start_lsn, dbs) ==
  LET done == [r EXCEPT !.trace = Append(@, [fd |-> fd, e |-> entry, st |-> "ok"])]
  IN CASE entry.type = kEntryTypeTxnBegin ->
            [done EXCEPT !.items = Append(@, Item(entry.txn_id, "active", <<>>, fd))]
       [] entry.type = kEntryTypeTxnAbort ->
            answered(replay_end(done, entry.txn_id, "aborted"))
       [] entry.type = kEntryTypeTxnCommit ->
            answered(replay_end(done, entry.txn_id, "committed"))
       [] entry.type = kEntryTypeInsert ->
            IF ~get_db(dbs, entry.dbname) THEN get_db_throws(r)
            ELSE answered(replay_op(done, db, IF get_txn(r.items, entry.txn_id) # 0
                                                THEN entry.txn_id ELSE 0,
                                    "ins", entry.payload[1]))
       [] entry.type = kEntryTypeErase ->
            IF ~get_db(dbs, entry.dbname) THEN get_db_throws(r)
            ELSE LET x == answered(replay_op(done, db,
                                             IF get_txn(r.items, entry.txn_id) # 0
                                               THEN entry.txn_id ELSE 0,
                                             "era", entry.payload[1]))
                 IN erase_status(x)
       [] entry.type = kEntryTypeChangeset -> r
       [] OTHER -> [r EXCEPT !.st = "io_error"]

\* The switch of recover_journal: one entry re-applied (or skipped).
replay_entry(r, db, entry, fd, start_lsn, dbs) ==
  LET done == [r EXCEPT !.trace = Append(@, [fd |-> fd, e |-> entry, st |-> "ok"])]
  IN CASE entry.type = kEntryTypeTxnBegin ->
            [done EXCEPT !.items = Append(@, Item(entry.txn_id, "active", <<>>, fd))]
       [] entry.type = kEntryTypeTxnAbort ->
            answered(replay_end(done, entry.txn_id, "aborted"))
       [] entry.type = kEntryTypeTxnCommit ->
            answered(replay_end(done, entry.txn_id, "committed"))
       [] entry.type = kEntryTypeInsert ->
            IF entry.lsn <= start_lsn THEN r
            ELSE IF ~get_db(dbs, entry.dbname) THEN get_db_throws(r)
            ELSE answered(replay_op(done, db, IF get_txn(r.items, entry.txn_id) # 0
                                                THEN entry.txn_id ELSE 0,
                                    "ins", entry.payload[1]))
       [] entry.type = kEntryTypeErase ->
            IF entry.lsn <= start_lsn THEN r
            ELSE IF ~get_db(dbs, entry.dbname) THEN get_db_throws(r)
            ELSE LET x == answered(replay_op(done, db,
                                             IF get_txn(r.items, entry.txn_id) # 0
                                               THEN entry.txn_id ELSE 0,
                                             "era", entry.payload[1]))
                 IN erase_status(x)
       [] entry.type = kEntryTypeChangeset -> r
       [] OTHER -> [r EXCEPT !.st = "io_error"]

\* The loop of recover_journal: read_entry until it reports LSN 0 or st is set.
RECURSIVE replay_loop(_, _, _, _, _, _, _)
replay_loop(cur_fd, fs, sz, db, start_lsn, dbs, r) ==
  LET rd == read_entry(cur_fd, fs, sz, r.it)
      r1 == [r EXCEPT !.it = rd.iter]
  IN IF rd.entry.lsn = 0 THEN r1
     ELSE LET r2 == replay_entry(r1, db, rd.entry, rd.iter.fdidx, start_lsn, dbs)
          IN IF r2.st # "ok" THEN r2
             ELSE replay_loop(cur_fd, fs, sz, db, start_lsn, dbs, r2)

\* abort_uncommitted_txns as it would be if it aborted nothing.
abort_uncommitted_txns_none(items) == items

\* Journal::abort_uncommitted_txns
abort_uncommitted_txns(items) ==
  [i \in 1..Len(items) |->
     IF items[i].st # "committed" THEN [items[i] EXCEPT !.st = "aborted"] ELSE items[i]]

\* The Journal object while recover_journal runs: just constructed and opened
\* over the files fs, with disable_logging_ set.
during_recovery(cur_fd, fs, sz) ==
  [current_fd |-> cur_fd, open_txn |-> [i \in Fds |-> 0],
   closed_txn |-> [i \in Fds |-> 0], buffer |-> [i \in Fds |-> <<>>],
   files |-> fs, fsize |-> sz, durable |-> sz, trunc |-> {},
   disable_logging |-> TRUE]

\* What append_changeset returns to env_->flush of recover_journal, which
\* writes the pages of the committed transactions items as one changeset.
flush_in_recovery(j, db, items, l) ==
  IF Touched(items, Len(items)) = {} THEN <<>>
  ELSE <<append_changeset_fd(j, PagesOf(CommittedView(db, items),
                                        Touched(items, Len(items))), l, FALSE)>>

\* Journal::recover_journal from "bail:" on, after the loop has ended with r.
recover_bail(r, items, j, db, start_lsn) ==
  [st |-> r.st,
   trace |-> r.trace,
   items |-> items,
   db |-> IF r.st = "ok" THEN CommittedView(db, items) ELSE db,
   flush_fds |-> IF r.st = "ok" THEN flush_in_recovery(j, db, items, start_lsn + 1)
                 ELSE <<>>,
   disable_logging |-> FALSE]

\* Journal::recover_journal left by an exception thrown inside the loop.
recover_thrown(r, db) ==
  [st |-> r.st, trace |-> r.trace, items |-> r.items, db |-> db,
   flush_fds |-> <<>>, disable_logging |-> TRUE]

\* Journal::recover_journal: the loop, then (bail) the abort of what is not
\* committed and, if nothing failed, the flush of what is.
recover_journal(cur_fd, fs, sz, db, start_lsn, dbs) ==
  LET r == replay_loop(cur_fd, fs, sz, db, start_lsn, dbs, ReplayStart)
  IN IF r.thrown THEN recover_thrown(r, db)
     ELSE recover_bail(r, abort_uncommitted_txns(r.items),
                       during_recovery(cur_fd, fs, sz), db, start_lsn)

\* State of transaction t after recovery ("none": it was never begun again).
StateOf(items, t) ==
  IF get_txn(items, t) = 0 THEN "none" ELSE items[get_txn(items, t)].st

\* What recover leaves behind, given the outcome rc of recover_changeset and
\* the outcome rj of recover_journal: a read failure of physical redo
\* propagates before logical redo starts.
recover_outcome(rc, rj) ==
  IF rc.failed
    THEN [st |-> "io_error", start_lsn |-> rc.start_lsn, redo_dev |-> rc.dev,
          current_fd |-> rc.current_fd, dev |-> rc.dev, replayed |-> <<>>,
          rtxn |-> [t \in TxnIds |-> "none"], applied |-> <<>>,
          flush_fds |-> <<>>, disable_logging |-> FALSE]
    ELSE [st |-> rj.st, start_lsn |-> rc.start_lsn, redo_dev |-> rc.dev,
          current_fd |-> rc.current_fd, dev |-> rj.db, replayed |-> rj.trace,
          rtxn |-> [t \in TxnIds |-> StateOf(rj.items, t)],
          applied |-> IF rj.st = "ok" THEN rj.items ELSE <<>>,
          flush_fds |-> rj.flush_fds, disable_logging |-> rj.disable_logging]

\* Journal::recover after recover_changeset has returned rc: logical redo from
\* the watermark, on the device physical redo left.
recover_from(rc, fs, sz, dbs) ==
  recover_outcome(rc, recover_journal(rc.current_fd, fs, sz, rc.dev, rc.start_lsn, dbs))

\* Journal::recover on the files fs of lengths sz and the device dev, by a
\* Journal object just constructed (current_fd_ = 0); dbs are the databases
\* the environment can open.
recover(fs, sz, dev, dbs) ==
  recover_from(recover_changeset(0, fs, sz, dev), fs, sz, dbs)

\* What recover leaves behind in an environment opened without
\* UPS_ENABLE_TRANSACTIONS, given the outcome rc of recover_changeset:
\* recover_journal is not called.
recover_physical_outcome(rc) ==
  [st |-> IF rc.failed THEN "io_error" ELSE "ok", start_lsn |-> rc.start_lsn,
   redo_dev |-> rc.dev, current_fd |-> rc.current_fd, dev |-> rc.dev,
   replayed |-> <<>>, rtxn |-> [t \in TxnIds |-> "none"], applied |-> <<>>,
   flush_fds |-> <<>>, disable_logging |-> FALSE]

\* Journal::recover in an environment opened without UPS_ENABLE_TRANSACTIONS.
recover_physical(fs, sz, dev) ==
  recover_physical_outcome(recover_changeset(0, fs, sz, dev))

\* ------------------------------------------------------------------ Init
NoCrash == [fd |-> 0, files |-> [i \in Fds |-> <<>>], fsize |-> [i \in Fds |-> 0],
            dev |-> [k \in Keys |-> 0], cs |-> <<>>]
NoRecovery == [st |-> "none", start_lsn |-> 0, redo_dev |-> [k \in Keys |-> 0],
               current_fd |-> 0, dev |-> [k \in Keys |-> 0], replayed |-> <<>>,
               rtxn |-> [t \in TxnIds |-> "none"], applied |-> <<>>,
               flush_fds |-> <<>>, disable_logging |-> FALSE]

\* Journal::Journal and Journal::create on an empty database.
Init ==
  /\ current_fd = 0
  /\ open_txn = [i \in Fds |-> 0]
  /\ closed_txn = [i \in Fds |-> 0]
  /\ buffer = [i \in Fds |-> <<>>]
  /\ files = [i \in Fds |-> <<>>]
  /\ fsize = [i \in Fds |-> 0]
  /\ durable = [i \in Fds |-> 0]
  /\ disable_logging = FALSE
  /\ fsync_flag \in BOOLEAN
  /\ lsn = 1
  /\ next_txn = 1
  /\ queue = <<>>
  /\ mem = [k \in Keys |-> 0]
  /\ pending = <<>>
  /\ device = [k \in Keys |-> 0]
  /\ phase = "running"
  /\ hist = <<>>
  /\ trunc = {}
  /\ must_have = {}
  /\ crash = NoCrash
  /\ rec = NoRecovery

Running == phase = "running" /\ lsn <= MaxLsn

\* One more entry, the one with LSN l, in the history.
Logged(j, l) ==
  /\ hist' = Append(hist, FindLsn(j, l))
  /\ lsn' = l + 1
  /\ UNCHANGED <<fsync_flag, phase, crash, rec>>

ActiveTxns == {i \in 1..Len(queue) : queue[i].st = "active"}

\* ------------------------------------------------------- writer actions
\* ups_txn_begin: a new transaction, journaled by append_txn_begin.
TxnBegin ==
  /\ Running
  /\ next_txn <= MaxTxn
  /\ LET j == append_txn_begin(J, next_txn, lsn)
     IN /\ SetJ(j)
        /\ queue' = Append(queue, Item(next_txn, "active", <<>>, j.current_fd))
        /\ Logged(j, lsn)
  /\ next_txn' = next_txn + 1
  /\ UNCHANGED <<mem, pending, device, must_have>>

\* ups_txn_abort, journaled by append_txn_abort.
TxnAbort(i) ==
  /\ Running
  /\ LET j == append_txn_abort(J, queue[i].id, queue[i].log_desc, lsn)
     IN SetJ(j) /\ Logged(j, lsn)
  /\ queue' = [queue EXCEPT ![i].st = "aborted"]
  /\ UNCHANGED <<next_txn, mem, pending, device, must_have>>

\* ups_txn_commit, journaled by append_txn_commit.
TxnCommit(i) ==
  /\ Running
  /\ LET j == append_txn_commit(J, queue[i].id, queue[i].log_desc, lsn, fsync_flag)
     IN SetJ(j) /\ Logged(j, lsn)
  /\ queue' = [queue EXCEPT ![i].st = "committed"]
  /\ must_have' = {k \in Keys : ApplyOps([x \in Keys |-> IF x \in must_have THEN 1 ELSE 0],
                                          queue[i].ops)[k] = 1}
  /\ UNCHANGED <<next_txn, mem, pending, device>>

\* ups_db_insert in transaction queue[i], journaled by append_insert.
Insert(i, k) ==
  /\ Running
  /\ ~Conflict(queue, queue[i].id, k)
  /\ ViewOf(mem, queue, queue[i].id)[k] = 0
  /\ LET j == append_insert(J, queue[i].id, queue[i].log_desc, k, lsn)
     IN SetJ(j) /\ Logged(j, lsn)
  /\ queue' = [queue EXCEPT ![i].ops = Append(@, <<"ins", k>>)]
  /\ UNCHANGED <<next_txn, mem, pending, device, must_have>>

\* ups_db_erase in transaction queue[i], journaled by append_erase.
Erase(i, k) ==
  /\ Running
  /\ ~Conflict(queue, queue[i].id, k)
  /\ ViewOf(mem, queue, queue[i].id)[k] = 1
  /\ LET j == append_erase(J, queue[i].id, queue[i].log_desc, k, lsn)
     IN SetJ(j) /\ Logged(j, lsn)
  /\ queue' = [queue EXCEPT ![i].ops = Append(@, <<"era", k>>)]
  /\ UNCHANGED <<next_txn, mem, pending, device, must_have>>

\* ups_db_insert without a transaction: a temporary transaction, committed at once.
TempInsert(k) ==
  /\ Running
  /\ ~Conflict(queue, 0, k)
  /\ ViewOf(mem, queue, 0)[k] = 0
  /\ LET j == append_insert(J, 0, 0, k, lsn)
     IN SetJ(j) /\ Logged(j, lsn)
  /\ queue' = Append(queue, Item(0, "committed", <<<<"ins", k>>>>, 0))
  /\ UNCHANGED <<next_txn, mem, pending, device, must_have>>

\* ups_db_erase without a transaction.
TempErase(k) ==
  /\ Running
  /\ ~Conflict(queue, 0, k)
  /\ ViewOf(mem, queue, 0)[k] = 1
  /\ LET j == append_erase(J, 0, 0, k, lsn)
     IN SetJ(j) /\ Logged(j, lsn)
  /\ queue' = Append(queue, Item(0, "committed", <<<<"era", k>>>>, 0))
  /\ must_have' = must_have \ {k}
  /\ UNCHANGED <<next_txn, mem, pending, device>>

\* The journal after the transaction manager has flushed the finished
\* transactions at the head of its list: transaction_flushed for each named
\* committed one, then one changeset with the pages they touched.
FlushedJournal(n, fsync) ==
  LET j1 == FlushedCounters(J, queue, n)
      db == CommittedView(mem, SubSeq(queue, 1, n))
      keys == Touched(queue, n)
  IN IF keys = {} THEN j1 ELSE append_changeset(j1, PagesOf(db, keys), lsn, fsync)

\* flush_committed_txns of the transaction manager.
FlushCommitted ==
  /\ phase = "running"
  /\ LET n == FinishedPrefix(queue)
         keys == Touched(queue, n)
         db == CommittedView(mem, SubSeq(queue, 1, n))
         j == FlushedJournal(n, fsync_flag)
     IN /\ n > 0
        /\ keys # {} => lsn <= MaxLsn
        /\ SetJ(j)
        /\ mem' = db
        /\ queue' = SubSeq(queue, n + 1, Len(queue))
        /\ IF keys = {}
             THEN UNCHANGED <<pending, hist, lsn>>
             ELSE /\ pending' = Append(pending, [fd |-> j.current_fd,
                                                  pages |-> PagesOf(db, keys)])
                  /\ hist' = Append(hist, FindLsn(j, lsn))
                  /\ lsn' = lsn + 1
  /\ UNCHANGED <<next_txn, device, must_have, fsync_flag, phase, crash, rec>>

\* The worker has written the pages of the oldest changeset to the device and
\* reports it with changeset_flushed.
PagesFlushed ==
  /\ phase = "running"
  /\ pending # <<>>
  /\ SetJ(changeset_flushed(J, Head(pending).fd))
  /\ device' = [k \in Keys |->
                  LET P == {p \in 1..Len(Head(pending).pages) :
                              Head(pending).pages[p].address = k}
                  IN IF P = {} THEN device[k]
                     ELSE Head(pending).pages[CHOOSE p \in P : TRUE].data]
  /\ pending' = Tail(pending)
  /\ UNCHANGED <<lsn, next_txn, queue, mem, hvars, fsync_flag, phase>>

\* ------------------------------------------------------ close, crash, recover
\* The engine is quiescent: every transaction is flushed, every changeset written.
Quiescent == queue = <<>> /\ pending = <<>>

\* Journal::close at the environment's close: with noclear (UPS_DONT_CLEAR_LOG)
\* at any time, without it after the engine has finished its transactions.
Close(noclear) ==
  /\ phase = "running"
  /\ noclear \/ Quiescent
  /\ SetJ(close(J, noclear))
  /\ phase' = IF noclear THEN "closed_noclear" ELSE "closed"
  /\ UNCHANGED <<evars, hvars, fsync_flag>>

\* Byte lengths a crash can leave of an entry that starts at byte s, short of
\* the whole entry: half a header, the header alone, or - of a changeset - the
\* first p - 1 pages and the header of page p.
TornPoints(e, s) ==
  {s + (SizeofEntry \div 2)}
    \cup (IF PayloadBytes(e) > 0 THEN {s + SizeofEntry} ELSE {})
    \cup (IF e.type = kEntryTypeChangeset
           THEN {s + SizeofEntry + SizeofChangeset
                   + (p - 1) * (SizeofPageHeader + page_size) + SizeofPageHeader :
                 p \in 1..Len(e.payload)}
           ELSE {})

\* Byte lengths a crash can leave of a file of which lo bytes are durable and
\* hi bytes are written.
CutPoints(ents, lo, hi) ==
  {c \in {StartOf(ents, i) : i \in 1..(Len(ents) + 1)}
          \cup UNION {TornPoints(ents[i], StartOf(ents, i)) : i \in 1..Len(ents)} :
     lo <= c /\ c <= hi}

\* The entries of which a file of c bytes holds at least one byte.
CutTo(ents, c) ==
  SubSeq(ents, 1, Cardinality({i \in 1..Len(ents) : StartOf(ents, i) < c}))

\* The process dies with the journal in state j; cs is the changeset whose
\* append was under way, if any.  What was not written is lost, what was not
\* made durable may be lost or torn.  The environment is then opened again:
\* a new Journal object over the files as they are.
CrashFrom(j, cs) ==
  /\ \E c0 \in CutPoints(j.files[0], j.durable[0], j.fsize[0]),
        c1 \in CutPoints(j.files[1], j.durable[1], j.fsize[1]) :
       LET fs == [i \in Fds |-> CutTo(j.files[i], IF i = 0 THEN c0 ELSE c1)]
           sz == [i \in Fds |-> IF i = 0 THEN c0 ELSE c1]
       IN /\ files' = fs
          /\ fsize' = sz
          /\ durable' = sz
          /\ crash' = [fd |-> j.current_fd, files |-> fs, fsize |-> sz,
                       dev |-> device, cs |-> cs]
  /\ current_fd' = 0
  /\ open_txn' = [i \in Fds |-> 0]
  /\ closed_txn' = [i \in Fds |-> 0]
  /\ buffer' = [i \in Fds |-> <<>>]
  /\ trunc' = {}
  /\ disable_logging' = FALSE
  /\ queue' = <<>>
  /\ pending' = <<>>
  /\ mem' = device
  /\ phase' = "crashed"
  /\ lsn' = 1
  /\ next_txn' = 1
  /\ hist' = <<>>
  /\ UNCHANGED <<device, must_have, rec, fsync_flag>>

\* A crash between two calls of the journal.
Crash ==
  /\ phase = "running"
  /\ CrashFrom(J, <<>>)

\* A crash inside append_changeset, called by flush_committed_txns: at one of
\* its checkpoints before the write, during the write, or before the fsync
\* has completed.
CrashInChangeset ==
  /\ phase = "running"
  /\ lsn <= MaxLsn
  /\ LET n == FinishedPrefix(queue)
         keys == Touched(queue, n)
         pages == PagesOf(CommittedView(mem, SubSeq(queue, 1, n)), keys)
         j1 == changeset_buffered(FlushedCounters(J, queue, n), pages, lsn)
         j2 == flush_buffer(j1, j1.current_fd, FALSE)
     IN /\ keys # {}
        /\ CrashFrom(j2, <<FindLsn(j1, lsn)>>)

\* RecoverEnds as it would be if recover did not end with clear().
RecoverEnds_uncleared(r) ==
  /\ rec' = r
  /\ device' = r.dev
  /\ mem' = r.dev
  /\ SetJ([J EXCEPT !.current_fd = r.current_fd, !.disable_logging = r.disable_logging])
  /\ phase' = IF r.st = "ok" THEN "recovered" ELSE "failed"

\* The state after Journal::recover has ended with outcome r: the journal is
\* cleared unless recover failed.
RecoverEnds(r) ==
  /\ rec' = r
  /\ device' = r.dev
  /\ mem' = r.dev
  /\ IF r.st = "ok"
       THEN /\ SetJ(clear([J EXCEPT !.current_fd = r.current_fd,
                                    !.disable_logging = r.disable_logging]))
            /\ phase' = "recovered"
       ELSE /\ SetJ([J EXCEPT !.current_fd = r.current_fd,
                              !.disable_logging = r.disable_logging])
            /\ phase' = "failed"

\* Journal::recover, when the environment is opened after a crash.
Recover ==
  /\ phase = "crashed"
  /\ \E dbs \in SUBSET {DbName} : RecoverEnds(recover(files, fsize, device, dbs))
  /\ UNCHANGED <<lsn, next_txn, queue, pending, hist, must_have, crash, fsync_flag>>

\* The calls of the engine into the journal while the environment is open.
Writer ==
  \/ TxnBegin
  \/ \E i \in ActiveTxns : TxnAbort(i)
  \/ \E i \in ActiveTxns : TxnCommit(i)
  \/ \E i \in ActiveTxns, k \in Keys : Insert(i, k)
  \/ \E i \in ActiveTxns, k \in Keys : Erase(i, k)
  \/ \E k \in Keys : TempInsert(k)
  \/ \E k \in Keys : TempErase(k)
  \/ FlushCommitted
  \/ PagesFlushed
  \/ \E noclear \in BOOLEAN : Close(noclear)

Next == Writer

\* The journal while the environment is open, up to its close.
Spec == Init /\ [][Next]_vars

\* The state after a second Journal::recover has ended with outcome r.
RecoverAgainEnds(r) ==
  /\ rec' = r
  /\ device' = r.dev
  /\ mem' = r.dev
  /\ IF r.st = "ok"
       THEN /\ SetJ(clear([J EXCEPT !.current_fd = r.current_fd,
                                    !.disable_logging = r.disable_logging]))
            /\ phase' = "recovered_twice"
       ELSE /\ SetJ([J EXCEPT !.current_fd = r.current_fd,
                              !.disable_logging = r.disable_logging])
            /\ phase' = "failed_twice"

\* Journal::recover called once more after it has returned successfully, on
\* the journal and the device as it left them.
RecoverAgain ==
  /\ phase = "recovered"
  /\ \E dbs \in SUBSET {DbName} :
       RecoverAgainEnds(recover_from(recover_changeset(current_fd, files, fsize, device),
                                     files, fsize, dbs))
  /\ UNCHANGED <<lsn, next_txn, queue, pending, hist, must_have, crash, fsync_flag>>

NextCrash ==
  \/ Writer
  \/ Crash
  \/ CrashInChangeset
  \/ Recover
  \/ RecoverAgain

\* The same with a crash at any moment, followed by recovery.
SpecCrash == Init /\ [][NextCrash]_vars

\* The six kinds of entry the journal writes, and a kind byte that is none of
\* them.
EntryKinds == {kEntryTypeTxnBegin, kEntryTypeTxnAbort, kEntryTypeTxnCommit,
               kEntryTypeInsert, kEntryTypeErase, kEntryTypeChangeset}
UnknownKind == "Unknown"

\* Between the crash and the next open, the kind byte of one entry of a
\* journal file is damaged.
Corrupt ==
  /\ phase = "crashed"
  /\ \A fd \in Fds : \A i \in 1..Len(files[fd]) : files[fd][i].type \in EntryKinds
  /\ \E fd \in Fds : \E i \in 1..Len(files[fd]) :
       /\ files' = [files EXCEPT ![fd][i].type = UnknownKind]
       /\ crash' = [crash EXCEPT !.files[fd][i].type = UnknownKind]
  /\ UNCHANGED <<current_fd, open_txn, closed_txn, buffer, fsize, durable, trunc,
                 disable_logging, evars, hist, must_have, rec, fsync_flag, phase>>

\* Journal::recover, when the environment is opened after a crash without
\* UPS_ENABLE_TRANSACTIONS.
RecoverPhysical ==
  /\ phase = "crashed"
  /\ RecoverEnds(recover_physical(files, fsize, device))
  /\ UNCHANGED <<lsn, next_txn, queue, pending, hist, must_have, crash, fsync_flag>>

NextCorrupt ==
  \/ Writer
  \/ Crash
  \/ CrashInChangeset
  \/ Corrupt
  \/ Recover
  \/ RecoverPhysical

\* The same with damage to the journal files before recovery, and with the
\* environment opened with or without transactions.
SpecCorrupt == Init /\ [][NextCorrupt]_vars

\* The device after the pages of a changeset are written to it.
RECURSIVE WritePages(_, _)
WritePages(dev, pages) ==
  IF pages = <<>> THEN dev
  ELSE WritePages([dev EXCEPT ![Head(pages).address] = Head(pages).data], Tail(pages))

\* ------------------------------------------------- journal with a compressor
\* One payload as an append stores it: raw bytes offered, the length len the
\* compressor returned for them, the form and number of bytes appended, and
\* the compressed-size field written to the sub-header.
Stored(raw, len, form, bytes, field) ==
  [raw |-> raw, len |-> len, form |-> form, bytes |-> bytes, compressed_size |-> field]

\* Journal::append_insert, the key: compressed only if that is shorter.
insert_key_stored(key_size, len) ==
  IF len < key_size THEN Stored(key_size, len, "compressed", len, len)
  ELSE Stored(key_size, len, "raw", key_size, 0)

\* Journal::append_insert, the record: compressed only if that is shorter.
insert_record_stored(record_size, len) ==
  IF len < record_size THEN Stored(record_size, len, "compressed", len, len)
  ELSE Stored(record_size, len, "raw", record_size, 0)

\* Journal::append_erase, the key: compressed only if that is shorter.
erase_key_stored(key_size, len) ==
  IF len < key_size THEN Stored(key_size, len, "compressed", len, len)
  ELSE Stored(key_size, len, "raw", key_size, 0)

\* Journal::append_changeset_page with a compressor: the arena of the
\* compressor is appended, whatever its length.
changeset_page_stored(size, len) == Stored(size, len, "compressed", len, len)

\* The entries these appends build; parts are the payloads as stored.
insert_entry(l, key, k, r) ==
  [type |-> kEntryTypeInsert, lsn |-> l, txn_id |-> 0, dbname |-> DbName,
   followup_size |-> SizeofInsertHdr + k.bytes + r.bytes, payload |-> <<key>>,
   bytes |-> SizeofInsertHdr + k.bytes + r.bytes, parts |-> <<k, r>>]
erase_entry(l, key, k) ==
  [type |-> kEntryTypeErase, lsn |-> l, txn_id |-> 0, dbname |-> DbName,
   followup_size |-> SizeofEraseHdr + k.bytes, payload |-> <<key>>,
   bytes |-> SizeofEraseHdr + k.bytes, parts |-> <<k>>]
changeset_entry(l, page, p) ==
  [type |-> kEntryTypeChangeset, lsn |-> l, txn_id |-> 0, dbname |-> 0,
   followup_size |-> SizeofChangeset + SizeofPageHeader + p.bytes,
   payload |-> <<page>>, bytes |-> SizeofChangeset + SizeofPageHeader + p.bytes,
   parts |-> <<p>>]

\* What compress may return for n bytes: less, as much, or more.
Lens(n) == {x \in {n - 1, n, n + 1} : x >= 0}
RecordSizes == {0, KeySize}

\* The journal after an append; nothing but the journal and the LSN changes.
Appended(j) ==
  /\ phase = "running"
  /\ lsn <= MaxAppends
  /\ SetJ(j)
  /\ lsn' = lsn + 1
  /\ UNCHANGED <<next_txn, queue, mem, pending, device, hvars, fsync_flag, phase>>

\* ups_db_insert without a transaction, compressor configured.
CompressedInsert(k, klen, rsize, rlen) ==
  Appended(maybe_flush_buffer(
    append_entry(select_file(J, 0, 0).j, select_file(J, 0, 0).idx,
                 insert_entry(lsn, k, insert_key_stored(KeySize, klen),
                              insert_record_stored(rsize, rlen))),
    select_file(J, 0, 0).idx))

\* ups_db_erase without a transaction, compressor configured.
CompressedErase(k, klen) ==
  Appended(maybe_flush_buffer(
    append_entry(select_file(J, 0, 0).j, select_file(J, 0, 0).idx,
                 erase_entry(lsn, k, erase_key_stored(KeySize, klen))),
    select_file(J, 0, 0).idx))

\* append_changeset of one page and changeset_flushed, compressor configured.
CompressedChangeset(k, len) ==
  Appended(changeset_flushed(
    [flush_buffer(append_entry(switch_files_maybe(J), switch_files_maybe(J).current_fd,
                               changeset_entry(lsn, [address |-> k, data |-> 1],
                                               changeset_page_stored(page_size, len))),
                  switch_files_maybe(J).current_fd, fsync_flag)
       EXCEPT !.open_txn[switch_files_maybe(J).current_fd] = @ + 1],
    switch_files_maybe(J).current_fd))

NextCompress ==
  \/ \E k \in Keys, klen \in Lens(KeySize), rsize \in RecordSizes :
       \E rlen \in Lens(rsize) : CompressedInsert(k, klen, rsize, rlen)
  \/ \E k \in Keys, klen \in Lens(KeySize) : CompressedErase(k, klen)
  \/ \E k \in Keys, len \in Lens(page_size) : CompressedChangeset(k, len)

\* The journal of an environment with a compressor configured.
SpecCompress == Init /\ [][NextCompress]_vars

\* ------------------------------------------------------------ endless runs
\* The journal as rotation sees it: current_fd_ and the four counters.  The
\* contents of the files do not enter switch_files_maybe, so an endless run
\* forgets them; a counter stops growing at CounterCap, which is above
\* threshold_ + MaxQueue, so that "is zero" and "has reached threshold_" stay
\* exact.
Sat(c) == IF c > CounterCap THEN CounterCap ELSE c

CountersOnly(j) ==
  [j EXCEPT !.open_txn = [i \in Fds |-> Sat(j.open_txn[i])],
            !.closed_txn = [i \in Fds |-> Sat(j.closed_txn[i])],
            !.buffer = [i \in Fds |-> <<>>],
            !.files = [i \in Fds |-> <<>>],
            !.fsize = [i \in Fds |-> 0],
            !.durable = [i \in Fds |-> 0],
            !.trunc = {}]

\* The journal becomes j, as rotation sees it.
LiveSet(j) ==
  /\ \E x \in {j} : \E c \in {CountersOnly(x)} : SetJ(c)
  /\ UNCHANGED <<lsn, next_txn, hvars, fsync_flag, phase>>

LiveIds == {queue[i].id : i \in 1..Len(queue)}

\* ups_txn_begin; the id of a flushed transaction is used again.
LiveTxnBegin ==
  /\ phase = "running"
  /\ Len(queue) < MaxQueue
  /\ \E t \in TxnIds \ LiveIds :
       /\ t = CHOOSE x \in TxnIds \ LiveIds : \A y \in TxnIds \ LiveIds : x <= y
       /\ LiveSet(append_txn_begin(J, t, lsn))
       /\ queue' = Append(queue, Item(t, "active", <<>>,
                                      append_txn_begin(J, t, lsn).current_fd))
  /\ UNCHANGED <<mem, pending, device>>

\* ups_txn_abort or ups_txn_commit of the live transaction t.
LiveTxnEnd(t) ==
  /\ phase = "running"
  /\ \E i \in ActiveTxns :
       /\ queue[i].id = t
       /\ \/ /\ LiveSet(append_txn_abort(J, t, queue[i].log_desc, lsn))
             /\ queue' = [queue EXCEPT ![i].st = "aborted"]
          \/ /\ LiveSet(append_txn_commit(J, t, queue[i].log_desc, lsn, fsync_flag))
             /\ queue' = [queue EXCEPT ![i].st = "committed"]
  /\ UNCHANGED <<mem, pending, device>>

\* ups_db_insert as the first operation of the live transaction queue[i].
LiveInsert(i, k) ==
  /\ phase = "running"
  /\ queue[i].ops = <<>>
  /\ ~Conflict(queue, queue[i].id, k)
  /\ ViewOf(mem, queue, queue[i].id)[k] = 0
  /\ LiveSet(append_insert(J, queue[i].id, queue[i].log_desc, k, lsn))
  /\ queue' = [queue EXCEPT ![i].ops = Append(@, <<"ins", k>>)]
  /\ UNCHANGED <<mem, pending, device>>

\* ups_db_insert without a transaction.
LiveTempInsert(k) ==
  /\ phase = "running"
  /\ Len(queue) < MaxQueue
  /\ ~Conflict(queue, 0, k)
  /\ ViewOf(mem, queue, 0)[k] = 0
  /\ LiveSet(append_insert(J, 0, 0, k, lsn))
  /\ queue' = Append(queue, Item(0, "committed", <<<<"ins", k>>>>, 0))
  /\ UNCHANGED <<mem, pending, device>>

\* ups_db_erase without a transaction.
LiveTempErase(k) ==
  /\ phase = "running"
  /\ Len(queue) < MaxQueue
  /\ ~Conflict(queue, 0, k)
  /\ ViewOf(mem, queue, 0)[k] = 1
  /\ LiveSet(append_erase(J, 0, 0, k, lsn))
  /\ queue' = Append(queue, Item(0, "committed", <<<<"era", k>>>>, 0))
  /\ UNCHANGED <<mem, pending, device>>

\* flush_committed_txns of the transaction manager, for the n finished
\* transactions at the head of its list, which touched keys and leave db.
LiveFlushed(n, keys, db) ==
  /\ keys # {} => Len(pending) < MaxPending
  /\ LiveSet(FlushedJournal(n, fsync_flag))
  /\ mem' = db
  /\ queue' = SubSeq(queue, n + 1, Len(queue))
  /\ pending' =
       IF keys = {} THEN pending
       ELSE Append(pending, [fd |-> FlushedJournal(n, fsync_flag).current_fd,
                             pages |-> PagesOf(db, keys)])
  /\ UNCHANGED device

LiveFlushCommitted ==
  /\ phase = "running"
  /\ FinishedPrefix(queue) > 0
  /\ LiveFlushed(FinishedPrefix(queue), Touched(queue, FinishedPrefix(queue)),
                 CommittedView(mem, SubSeq(queue, 1, FinishedPrefix(queue))))

\* The worker has written the pages of the oldest changeset and reports it
\* with changeset_flushed.
LivePagesFlushed ==
  /\ phase = "running"
  /\ pending # <<>>
  /\ LiveSet(changeset_flushed(J, Head(pending).fd))
  /\ device' = WritePages(device, Head(pending).pages)
  /\ pending' = Tail(pending)
  /\ UNCHANGED <<queue, mem>>

\* An operation that begins a new scope: it calls switch_files_maybe.
LiveScope ==
  \/ LiveTxnBegin
  \/ \E k \in Keys : LiveTempInsert(k)
  \/ \E k \in Keys : LiveTempErase(k)

NextLive ==
  \/ LiveScope
  \/ \E t \in TxnIds : LiveTxnEnd(t)
  \/ \E i \in ActiveTxns, k \in Keys : LiveInsert(i, k)
  \/ LiveFlushCommitted
  \/ LivePagesFlushed

\* When LiveFlushCommitted can be taken: its guard, which does not depend on
\* the journal.
FlushEnabled ==
  /\ phase = "running"
  /\ FinishedPrefix(queue) > 0
  /\ Touched(queue, FinishedPrefix(queue)) # {} => Len(pending) < MaxPending

\* The environment stays open for ever: every transaction is ended and
\* flushed, every changeset is acknowledged, and new scopes keep being begun.
\* The second conjunct is weak fairness of LiveFlushCommitted, with its
\* enabling condition written out.
SpecLive ==
  /\ Init
  /\ [][NextLive]_vars
  /\ ([]<>~FlushEnabled \/ []<><<LiveFlushCommitted>>_vars)
  /\ \A t \in TxnIds : WF_vars(LiveTxnEnd(t))
  /\ WF_vars(LivePagesFlushed)
  /\ WF_vars(LiveScope)

\* --------------------------------------------------- induced errors
\* append_changeset, called by flush_committed_txns, is left by the exception
\* of UPS_INDUCE_ERROR at its checkpoint cp: 1 before the patch of the header,
\* 2 before the flush, 3 before open_txn_ is incremented.  The transactions
\* are flushed to the pages in memory by then; no changeset reaches the worker.
ChangesetFails(cp) ==
  /\ phase = "running"
  /\ lsn <= MaxLsn
  /\ LET n == FinishedPrefix(queue)
         keys == Touched(queue, n)
         db == CommittedView(mem, SubSeq(queue, 1, n))
         j1 == changeset_placeholder(FlushedCounters(J, queue, n), PagesOf(db, keys), lsn)
         j2 == changeset_buffered(FlushedCounters(J, queue, n), PagesOf(db, keys), lsn)
         j == CASE cp = 1 -> j1
                [] cp = 2 -> j2
                [] OTHER -> flush_buffer(j2, j2.current_fd, fsync_flag)
     IN /\ keys # {}
        /\ SetJ(j)
        /\ mem' = db
        /\ queue' = SubSeq(queue, n + 1, Len(queue))
        /\ hist' = Append(hist, FindLsn(j, lsn))
        /\ lsn' = lsn + 1
  /\ UNCHANGED <<next_txn, pending, device, must_have, fsync_flag, phase, crash, rec>>

NextInduce ==
  \/ Writer
  \/ \E cp \in {1, 2, 3} : ChangesetFails(cp)

\* The journal while the environment is open, with errors induced in
\* append_changeset.
SpecInduce == Init /\ [][NextInduce]_vars

\* ------------------------------------------------------------------ claims
\* Entry h of the history is in its file (written), or neither in the file nor
\* in the buffer any more (its file was recycled since).
Written(h) == \E p \in 1..Len(files[h.fd]) : files[h.fd][p] = h.e
Buffered(h) == \E p \in 1..Len(buffer[h.fd]) : buffer[h.fd][p] = h.e
Recycled(h) == ~Written(h) /\ ~Buffered(h)

\* Entry h of the history lies within the durable bytes of its file.
Durable(h) ==
  \E p \in 1..Len(files[h.fd]) :
    /\ files[h.fd][p] = h.e
    /\ StartOf(files[h.fd], p) + ESize(h.e) <= durable[h.fd]

\* C1: whenever a journal file is truncated to length zero - by a rotation, by
\* close or by recover - its open_txn counter is zero at that moment.
C1_TruncatedOnlyWhenNoOpenTxn == \A t \in trunc : t[2] = 0

\* C7: with fsync enabled, once append_txn_commit has returned, the TxnBegin,
\* every Insert and Erase and the TxnCommit entry of the transaction are durable
\* in the journal file.
C7_CommitDurable ==
  fsync_flag =>
    \A i \in 1..Len(queue) :
      (queue[i].id # 0 /\ queue[i].st = "committed") =>
        \A h \in 1..Len(hist) :
          hist[h].e.txn_id = queue[i].id => Durable(hist[h])

\* C7 witness: a committed transaction with an insert, under fsync.
C7_Witness ==
  /\ fsync_flag
  /\ \E i \in 1..Len(queue) :
       /\ queue[i].id # 0 /\ queue[i].st = "committed" /\ queue[i].ops # <<>>
       /\ \E h \in 1..Len(hist) :
            hist[h].e.txn_id = queue[i].id /\ hist[h].e.type = kEntryTypeTxnCommit

\* C8 as claimed: if an entry is written to its file, every entry appended
\* earlier, to either file, is written too (unless its file was recycled).
C8_WrittenIsPrefixOfHistory ==
  \A a, b \in 1..Len(hist) :
    (a < b /\ Written(hist[b]) /\ ~Recycled(hist[a])) => Written(hist[a])

\* C8 amended: if an entry is written to its file, every entry appended earlier
\* to the same file is written too (unless the file was recycled in between).
C8_WrittenIsPrefixPerFile ==
  \A a, b \in 1..Len(hist) :
    (a < b /\ hist[a].fd = hist[b].fd /\ Written(hist[b]) /\ ~Recycled(hist[a]))
      => Written(hist[a])

\* C8 witness: a file holds written entries while later entries of the same
\* file still wait in its buffer.
C8_Witness ==
  \E a, b \in 1..Len(hist) :
    a < b /\ hist[a].fd = hist[b].fd /\ Written(hist[a]) /\ Buffered(hist[b])

Increasing(s) == \A p, q \in 1..Len(s) : p < q => s[p].lsn < s[q].lsn

\* C10 as claimed: the older file (the one that is not current) read completely,
\* then the newer file, yields strictly increasing LSNs.
C10_LsnIncreasesAcrossPair ==
  phase = "running" => Increasing(files[Other(current_fd)] \o files[current_fd])

\* C10 amended: within each file, buffered entries included, LSNs strictly increase.
C10_LsnIncreasesPerFile ==
  \A fd \in Fds : Increasing(files[fd] \o buffer[fd])

\* C10 witness: a transaction begun before a rotation has appended to the
\* retired file after an entry of the new file.
C10_Witness ==
  /\ phase = "running"
  /\ \E a, b \in 1..Len(hist) :
       /\ a < b
       /\ hist[a].fd = current_fd /\ hist[b].fd = Other(current_fd)
       /\ ~Recycled(hist[a]) /\ ~Recycled(hist[b])
       /\ hist[b].e.txn_id # 0

\* What the recovery iterator reads after the environment is opened again
\* (a new Journal object: current_fd_ = 0).
ReadBack == read_all(0, files, fsize, FreshIterator)

EntriesOf(hs) == [i \in 1..Len(hs) |-> hs[i].e]

\* The entries appended to file fd that a rotation has not removed since.
KeptOf(fd) == EntriesOf(SelectSeq(hist, LAMBDA h : h.fd = fd /\ ~Recycled(h)))

Recovered == phase = "recovered"
RecoverRan == phase \in {"recovered", "failed"}

\* The entries of file fd, as the crash left it, that are there in full.
Complete(fd) ==
  {i \in 1..Len(crash.files[fd]) :
     StartOf(crash.files[fd], i) + ESize(crash.files[fd][i]) <= crash.fsize[fd]}

\* The journal, as the crash left it, holds an entry of this type of transaction t.
HasEntry(t, type) ==
  \E fd \in Fds : \E i \in Complete(fd) :
    crash.files[fd][i].txn_id = t /\ crash.files[fd][i].type = type

\* Transaction t was begun and neither committed nor aborted in the journal.
Unfinished(t) ==
  /\ HasEntry(t, kEntryTypeTxnBegin)
  /\ ~HasEntry(t, kEntryTypeTxnCommit)
  /\ ~HasEntry(t, kEntryTypeTxnAbort)

\* Recovery has replayed an entry of this type of transaction t.
Replayed(t, type) ==
  \E i \in 1..Len(rec.replayed) :
    rec.replayed[i].e.txn_id = t /\ rec.replayed[i].e.type = type

\* The list of transactions recovery ended with, without those of id t.
Without(items, t) == SelectSeq(items, LAMBDA x : x.id # t)

\* C2: with fsync enabled, after recover the database holds every key inserted
\* by a transaction whose commit returned before the crash, unless a later
\* committed operation erased it.
C2_CommittedKeysRecovered ==
  (Recovered /\ fsync_flag) => \A k \in must_have : device[k] = 1

C4_OlderFileReplayedFirst ==
  RecoverRan =>
    \A a, b \in 1..Len(rec.replayed) :
      a < b => ~(rec.replayed[a].fd = crash.fd /\ rec.replayed[b].fd = Other(crash.fd))

\* A file ends in an entry that is only partly there.
TornTail == \E fd \in Fds : crash.fsize[fd] < Bytes(crash.files[fd])

\* C5: if a journal file ends in a partially written entry, recover does not
\* fail on reading it: the torn entry is the end of the log.
C5_TornTailIsEndOfLog ==
  (RecoverRan /\ TornTail) => rec.st # "io_error"

\* The journal as the crash left it, without the changeset whose append was
\* under way.
FilesWithout(cs) ==
  [fd \in Fds |-> SelectSeq(crash.files[fd], LAMBDA e : e.lsn # cs.e.lsn)]
SizesWithout(cs) ==
  [fd \in Fds |->
     IF crash.fsize[fd] < Bytes(FilesWithout(cs)[fd])
       THEN crash.fsize[fd] ELSE Bytes(FilesWithout(cs)[fd])]

\* The device after physical redo had the changeset not been there at all.
NoneApplied(cs) ==
  recover_changeset(0, FilesWithout(cs), SizesWithout(cs), crash.dev).dev

\* C6: after a crash inside append_changeset, physical redo leaves the device
\* with all pages of that changeset applied or with none of them applied.
C6_ChangesetAllOrNothing ==
  (RecoverRan /\ crash.cs # <<>>) =>
    \/ rec.redo_dev = NoneApplied(crash.cs[1])
    \/ rec.redo_dev = WritePages(NoneApplied(crash.cs[1]), crash.cs[1].e.payload)

\* ------------------------------------------- claims about transaction scope
\* Everything appended to file fd and not removed since: written, then buffered.
Content(fd) == files[fd] \o buffer[fd]

TxnOps == {kEntryTypeTxnCommit, kEntryTypeTxnAbort, kEntryTypeInsert, kEntryTypeErase}

\* Position p of file fd is preceded, in that file, by the TxnBegin of its transaction.
BeginBefore(fd, p) ==
  \E q \in 1..(p - 1) :
    /\ Content(fd)[q].type = kEntryTypeTxnBegin
    /\ Content(fd)[q].txn_id = Content(fd)[p].txn_id

\* C11: every TxnCommit, TxnAbort, Insert and Erase entry of a named transaction
\* lies in the file of that transaction's TxnBegin, after it; and the TxnBegin
\* of a transaction that can still append is still in its file.
C11_SameFileTxnScope ==
  /\ \A fd \in Fds : \A p \in 1..Len(Content(fd)) :
       (Content(fd)[p].txn_id # 0 /\ Content(fd)[p].type \in TxnOps)
         => BeginBefore(fd, p)
  /\ \A i \in ActiveTxns :
       \E q \in 1..Len(Content(queue[i].log_desc)) :
         /\ Content(queue[i].log_desc)[q].type = kEntryTypeTxnBegin
         /\ Content(queue[i].log_desc)[q].txn_id = queue[i].id

\* C11 witness: after a rotation, a transaction begun before it has committed
\* in the retired file, where its TxnBegin and its insert are.
C11_Witness ==
  \E p \in 1..Len(files[Other(current_fd)]) :
    /\ files[Other(current_fd)][p].type = kEntryTypeTxnCommit
    /\ \E q \in 1..(p - 1) :
         /\ files[Other(current_fd)][q].type = kEntryTypeInsert
         /\ files[Other(current_fd)][q].txn_id = files[Other(current_fd)][p].txn_id
    /\ \E h \in 1..Len(hist) :
         /\ hist[h].fd = current_fd
         /\ hist[h].e.lsn < files[Other(current_fd)][p].lsn

\* ------------------------------------------------ claims about changesets
\* The journal after fd = append_changeset(one page) and changeset_flushed(fd),
\* called on the journal as it is.
AfterChangesetFlushed ==
  changeset_flushed(append_changeset(J, PagesOf(mem, {1}), lsn, fsync_flag),
                    append_changeset(J, PagesOf(mem, {1}), lsn, fsync_flag).current_fd)

\* C12: after fd = append_changeset(...) and changeset_flushed(fd) the changeset
\* no longer counts as open on file fd: open_txn[fd] is what it was before the
\* append, and closed_txn[fd] is one higher than when the changeset was appended.
C12_ChangesetFlushedCloses ==
  Running =>
    /\ AfterChangesetFlushed.open_txn[AfterChangesetFlushed.current_fd]
         = switch_files_maybe(J).open_txn[AfterChangesetFlushed.current_fd]
    /\ AfterChangesetFlushed.closed_txn[AfterChangesetFlushed.current_fd]
         = switch_files_maybe(J).closed_txn[AfterChangesetFlushed.current_fd] + 1

\* C13: in a run where every transaction is ended and flushed and every
\* changeset is acknowledged, a current file that has reached the threshold
\* does not stay current for ever: a later scope rotates to the other file.
C13_RotationEventually ==
  \A f \in Fds :
    (current_fd = f /\ open_txn[f] + closed_txn[f] >= threshold_) ~> (current_fd # f)

\* C14: append_changeset always returns the index of the file the changeset
\* was written to, 0 or 1: for the changesets waiting for changeset_flushed
\* while the environment is open, and for the one the flush at the end of
\* recover_journal appends while logging is disabled.
C14_ChangesetFdIsAFile ==
  /\ \A i \in 1..Len(pending) : pending[i].fd \in Fds
  /\ \A i \in 1..Len(rec.flush_fds) : rec.flush_fds[i] \in Fds

\* ------------------------------------------- claims about logical redo
\* The entries logical redo reads from the journal the crash left.
LogRead == read_all(rec.current_fd, crash.files, crash.fsize, FreshIterator)

\* Logical redo has re-applied entry e.
WasReplayed(e) == \E i \in 1..Len(rec.replayed) : rec.replayed[i].e = e

ToReplay ==
  SelectSeq(LogRead,
            LAMBDA e : \/ e.type \in {kEntryTypeTxnBegin, kEntryTypeTxnAbort,
                                       kEntryTypeTxnCommit}
                       \/ /\ e.type \in {kEntryTypeInsert, kEntryTypeErase}
                          /\ e.lsn > rec.start_lsn)

\* The engine reported a failure for the i-th replayed entry, other than
\* "key not found" for an erase.
ReplayFailed(i) ==
  /\ rec.replayed[i].st # "ok"
  /\ ~(rec.replayed[i].e.type = kEntryTypeErase /\ rec.replayed[i].st = "key_not_found")

\* C16: the entries re-applied are the entries to replay, in order, up to the
\* first one for which the engine reports a failure other than "key not found"
\* for an erase; that entry is the last one re-applied and recover fails with
\* its error.  Replay ends earlier only if physical redo or get_db failed.
C16_ReplayFailurePolicy ==
  RecoverRan =>
    /\ Len(rec.replayed) <= Len(ToReplay)
    /\ \A i \in 1..Len(rec.replayed) :
         /\ rec.replayed[i].e = ToReplay[i]
         /\ ReplayFailed(i) =>
              /\ i = Len(rec.replayed)
              /\ rec.st = rec.replayed[i].st
              /\ phase = "failed"
    /\ (\A i \in 1..Len(rec.replayed) : ~ReplayFailed(i))
         => \/ rec.st = "ok" /\ Len(rec.replayed) = Len(ToReplay)
            \/ rec.st \in {"io_error", "database_not_found"}

\* C16 witness: a recovery in which the engine answered "key not found" to a
\* replayed erase, replay went on to further entries, and the last of them
\* failed, which made recover fail with that error.
C16_Witness ==
  /\ phase = "failed"
  /\ \E i \in 1..Len(rec.replayed) :
       /\ i < Len(rec.replayed)
       /\ rec.replayed[i].e.type = kEntryTypeErase
       /\ rec.replayed[i].st = "key_not_found"
  /\ Len(rec.replayed) > 0
  /\ ReplayFailed(Len(rec.replayed))
  /\ rec.st = rec.replayed[Len(rec.replayed)].st

\* ------------------------------------------- claims about damaged files
\* A journal file, as recovery found it, holds a readable entry whose kind is
\* none of the six known kinds.
UnknownEntry ==
  \E fd \in Fds : \E i \in Complete(fd) : crash.files[fd][i].type \notin EntryKinds

\* C17: if either journal file contains a readable entry of an unknown kind,
\* recover fails, with or without transactions, wherever the entry lies.
C17_CorruptionIsFatal ==
  (RecoverRan /\ UnknownEntry) => phase = "failed"

\* ------------------------------------------- claims about compression
\* Payload p was stored by the rule: the compressed form, with the
\* compressed-size field set to its length, if that is strictly shorter than
\* the raw bytes; otherwise the raw bytes, with the field zero.
ByPolicy(p) ==
  IF p.len < p.raw
    THEN p.form = "compressed" /\ p.bytes = p.len /\ p.compressed_size = p.len
    ELSE p.form = "raw" /\ p.bytes = p.raw /\ p.compressed_size = 0

\* C18: with a compressor configured, every payload of every entry appended
\* (insert key, insert record, erase key, changeset page) is stored by the rule.
C18_CompressionPolicy ==
  \A fd \in Fds : \A i \in 1..Len(Content(fd)) :
    \A n \in 1..Len(Content(fd)[i].parts) : ByPolicy(Content(fd)[i].parts[n])

\* ------------------------------------------- claims about repeated recovery
\* C19: a second recover after a successful one changes no page of the page
\* device and re-applies no logical operation.
C19_RecoverIsIdempotent ==
  [][phase = "recovered" => (device' = device /\ rec'.replayed = <<>>)]_vars

\* C19 witness: recover has run a second time, after a first run that wrote a
\* page from a changeset and re-applied an insert logged after it.
C19_Witness ==
  /\ phase = "recovered_twice"
  /\ device # crash.dev
  /\ \E fd \in Fds : \E i \in Complete(fd) : crash.files[fd][i].type = kEntryTypeChangeset
  /\ \E fd \in Fds : \E i \in Complete(fd) :
       /\ crash.files[fd][i].type = kEntryTypeInsert
       /\ \A g \in Fds : \A n \in Complete(g) :
            crash.files[g][n].type = kEntryTypeChangeset
              => crash.files[g][n].lsn < crash.files[fd][i].lsn

\* C20: whenever recover has returned, normally or with an error, logging is
\* enabled again; and a recover that failed has appended nothing to the
\* journal and changed no counter while it replayed.
C20_LoggingDisabledOnlyInRecovery ==
  RecoverRan =>
    /\ ~disable_logging
    /\ phase = "failed" =>
         /\ files = crash.files
         /\ \A fd \in Fds : buffer[fd] = <<>> /\ open_txn[fd] = 0 /\ closed_txn[fd] = 0

\* ------------------------------------------- claims about the end of recover
\* C21: after recover has returned successfully, both journal files have
\* length zero, both buffers are empty and open_txn and closed_txn are zero
\* for both files; if recover has failed, neither file has been truncated.
C21_RecoverEndsWithClear ==
  /\ phase = "recovered" =>
       \A fd \in Fds :
         /\ files[fd] = <<>> /\ fsize[fd] = 0 /\ buffer[fd] = <<>>
         /\ open_txn[fd] = 0 /\ closed_txn[fd] = 0
  /\ phase = "failed" => (files = crash.files /\ fsize = crash.fsize)

\* C21 witness: recover has returned successfully on a journal that had entries
\* in both files, a changeset to redo and entries to re-apply.
C21_Witness ==
  /\ phase = "recovered"
  /\ crash.fsize[0] > 0 /\ crash.fsize[1] > 0
  /\ rec.start_lsn > 0
  /\ rec.replayed # <<>>

\* ------------------------------------------- claims about rotation
\* File fd of journal j is as clear_file leaves it.
Emptied(j, fd) ==
  /\ j.files[fd] = <<>> /\ j.fsize[fd] = 0 /\ j.buffer[fd] = <<>>
  /\ j.open_txn[fd] = 0 /\ j.closed_txn[fd] = 0

\* File fd is the same in journals a and b: contents, buffer and counters.
SameFile(a, b, fd) ==
  /\ a.files[fd] = b.files[fd] /\ a.fsize[fd] = b.fsize[fd]
  /\ a.buffer[fd] = b.buffer[fd]
  /\ a.open_txn[fd] = b.open_txn[fd] /\ a.closed_txn[fd] = b.closed_txn[fd]

\* C23: switch_files_maybe keeps the current file when open_txn[current] +
\* closed_txn[current] < T; otherwise, if open_txn[other] = 0, it truncates the
\* other file to length zero, resets its counters and buffer and makes it
\* current; otherwise it keeps the current file.  It never changes the
\* contents, buffer or counters of the file that was current on entry.
C23_RotationPredicate ==
  /\ SameFile(switch_files_maybe(J), J, current_fd)
  /\ IF open_txn[current_fd] + closed_txn[current_fd] < threshold_
       THEN /\ switch_files_maybe(J).current_fd = current_fd
            /\ SameFile(switch_files_maybe(J), J, Other(current_fd))
       ELSE IF open_txn[Other(current_fd)] = 0
         THEN /\ switch_files_maybe(J).current_fd = Other(current_fd)
              /\ Emptied(switch_files_maybe(J), Other(current_fd))
         ELSE /\ switch_files_maybe(J).current_fd = current_fd
              /\ SameFile(switch_files_maybe(J), J, Other(current_fd))

\* C23 witness: each file has been recycled by a rotation, file 0 holds
\* entries again, and the current file has reached the threshold while the
\* other file has an open transaction: the next call keeps the current file.
C23_Witness ==
  /\ phase = "running"
  /\ <<0, 0>> \in trunc /\ <<1, 0>> \in trunc
  /\ files[0] \o buffer[0] # <<>>
  /\ \E fd \in Fds :
       /\ current_fd = fd
       /\ open_txn[fd] + closed_txn[fd] >= threshold_
       /\ open_txn[Other(fd)] > 0

\* ------------------------------------------- claims about physical redo
\* recover_changeset on the journal and the device as the crash left them.
PhysicalRedo == recover_changeset(0, crash.files, crash.fsize, crash.dev)

\* The changesets the crash left in the journal in full, as <<file, position>>.
Changesets ==
  {c \in Fds \X (1..MaxLsn) :
     /\ c[2] \in Complete(c[1])
     /\ crash.files[c[1]][c[2]].type = kEntryTypeChangeset}

ChangesetAt(c) == crash.files[c[1]][c[2]]

\* Changeset c holds a page of address k with bytes d.
HasPage(c, k, d) ==
  \E p \in 1..Len(ChangesetAt(c).payload) :
    ChangesetAt(c).payload[p].address = k /\ ChangesetAt(c).payload[p].data = d

\* C24: after recover_changeset has returned, every page address that appears
\* in at least one changeset holds the bytes recorded for it by the changeset
\* with the highest LSN that contains the address, whether the changesets are
\* in both files, only in file 0 or only in file 1.
C24_LastWriterWins ==
  (RecoverRan /\ ~PhysicalRedo.failed) =>
    \A c \in Changesets : \A k \in Keys : \A d \in {0, 1} :
      (/\ HasPage(c, k, d)
       /\ \A c2 \in Changesets :
            (\E d2 \in {0, 1} : HasPage(c2, k, d2))
              => ChangesetAt(c2).lsn <= ChangesetAt(c).lsn)
        => rec.redo_dev[k] = d

\* C24 witness: recover_changeset has returned on a journal with a changeset
\* in each file, both for the same page, with different bytes.
C24_Witness ==
  /\ RecoverRan /\ ~PhysicalRedo.failed
  /\ \E c \in Changesets, c2 \in Changesets : \E k \in Keys :
       /\ c[1] = 0 /\ c2[1] = 1
       /\ HasPage(c, k, 0) /\ HasPage(c2, k, 1)

\* The highest LSN of the changesets the crash left in full, 0 if there is none.
NewestChangeset ==
  IF Changesets = {} THEN 0
  ELSE ChangesetAt(CHOOSE c \in Changesets :
                     \A c2 \in Changesets : ChangesetAt(c2).lsn <= ChangesetAt(c).lsn).lsn

\* C25: recover_changeset returns the maximum LSN over all Changeset entries
\* present in the two files; it returns 0 exactly when neither file contains a
\* Changeset entry, and then no page is written.
C25_Watermark ==
  (RecoverRan /\ ~PhysicalRedo.failed) =>
    /\ rec.start_lsn = NewestChangeset
    /\ rec.start_lsn = 0 <=> Changesets = {}
    /\ Changesets = {} => rec.redo_dev = crash.dev

\* C25 witness: recover_changeset has returned on a journal with changesets in
\* both files; the newest changeset is in the file redone second.
C25_Witness ==
  /\ RecoverRan /\ ~PhysicalRedo.failed
  /\ \E c \in Changesets, c2 \in Changesets :
       /\ c[1] = rec.current_fd /\ c2[1] = Other(rec.current_fd)
       /\ ChangesetAt(c).lsn < ChangesetAt(c2).lsn
       /\ rec.start_lsn = ChangesetAt(c2).lsn

\* ------------------------------------------- claims about the recovery iterator
\* The entries of file fd, as the crash left it, that are there in full, in
\* file order.
Readable(fd) == SubSeq(crash.files[fd], 1, Cardinality(Complete(fd)))

\* The file each call of read_entry is on when it returns, from the iterator
\* iter until the call that reports LSN 0 (included).
RECURSIVE Visits(_, _, _, _)
Visits(cur_fd, fs, sz, iter) ==
  IF read_entry(cur_fd, fs, sz, iter).entry.lsn = 0
    THEN <<read_entry(cur_fd, fs, sz, iter).iter.fdidx>>
    ELSE <<read_entry(cur_fd, fs, sz, iter).iter.fdidx>>
           \o Visits(cur_fd, fs, sz, read_entry(cur_fd, fs, sz, iter).iter)

\* C26: from offset 0, the calls of read_entry start on the file that is not
\* current_fd, return that file's entries in file order, switch to the other
\* file once, return its entries in file order and then report LSN 0; no file
\* is visited twice, and the number of calls is bounded by the number of
\* entries, whatever the files hold.
C26_IteratorProtocol ==
  RecoverRan =>
    /\ LogRead = Readable(Other(rec.current_fd)) \o Readable(rec.current_fd)
    /\ Len(Visits(rec.current_fd, crash.files, crash.fsize, FreshIterator))
         = Len(LogRead) + 1
    /\ \A a, b \in 1..(Len(LogRead) + 1) :
         (a < b /\ Visits(rec.current_fd, crash.files, crash.fsize, FreshIterator)[a]
                     = rec.current_fd)
           => Visits(rec.current_fd, crash.files, crash.fsize, FreshIterator)[b]
                = rec.current_fd

\* ------------------------------------------- claims about the file format
\* C27: every entry header written to a journal file carries a followup_size
\* equal to the number of payload bytes that follow it in the file, so that
\* the file parses as a concatenation of entries - also after an
\* append_changeset that failed at a checkpoint of the error inducer and was
\* followed by further appends and a flush.
C27_FilesWellFormed ==
  \A fd \in Fds : \A i \in 1..Len(files[fd]) :
    files[fd][i].followup_size = PayloadBytes(files[fd][i])

\* ------------------------------------------- claims about the counters
\* The entry a step appends, with its file.
Appended_h == hist'[Len(hist')]

\* Transaction t began in file fd.
BeganIn(t, fd) ==
  \E q \in 1..Len(hist) :
    /\ hist[q].fd = fd
    /\ hist[q].e.type = kEntryTypeTxnBegin
    /\ hist[q].e.txn_id = t

\* The named committed transactions a step removes from the head of the
\* manager's list: transaction_flushed is called for each.
FlushedNow ==
  {i \in 1..(Len(queue) - Len(queue')) : queue[i].st = "committed" /\ queue[i].id # 0}

\* The journal after one unit has moved from open_txn to closed_txn of its
\* file for each of them.
OneUnitEach ==
  [J EXCEPT
     !.open_txn = [fd \in Fds |->
                     open_txn[fd] - Cardinality({i \in FlushedNow : queue[i].log_desc = fd})],
     !.closed_txn = [fd \in Fds |->
                       closed_txn[fd] + Cardinality({i \in FlushedNow : queue[i].log_desc = fd})]]

\* A step that appends a logical entry changes the counters as claimed; the
\* file an operation "selects" is the current file after switch_files_maybe.
CountedAppend ==
  CASE Appended_h.e.type = kEntryTypeTxnBegin ->
         /\ Appended_h.fd = switch_files_maybe(J).current_fd
         /\ open_txn' = [switch_files_maybe(J).open_txn EXCEPT ![Appended_h.fd] = @ + 1]
         /\ closed_txn' = switch_files_maybe(J).closed_txn
    [] Appended_h.e.type = kEntryTypeTxnAbort ->
         /\ BeganIn(Appended_h.e.txn_id, Appended_h.fd)
         /\ open_txn' = [open_txn EXCEPT ![Appended_h.fd] = @ - 1]
         /\ closed_txn' = [closed_txn EXCEPT ![Appended_h.fd] = @ + 1]
    [] Appended_h.e.type = kEntryTypeTxnCommit ->
         open_txn' = open_txn /\ closed_txn' = closed_txn
    [] Appended_h.e.type \in {kEntryTypeInsert, kEntryTypeErase}
         /\ Appended_h.e.txn_id # 0 ->
         open_txn' = open_txn /\ closed_txn' = closed_txn
    [] Appended_h.e.type \in {kEntryTypeInsert, kEntryTypeErase}
         /\ Appended_h.e.txn_id = 0 ->
         /\ Appended_h.fd = switch_files_maybe(J).current_fd
         /\ open_txn' = switch_files_maybe(J).open_txn
         /\ closed_txn' = [switch_files_maybe(J).closed_txn EXCEPT ![Appended_h.fd] = @ + 1]
    [] OTHER -> TRUE

\* A step of flush_committed_txns moves one unit per flushed transaction, in
\* the file where it began, before the changeset (if any) is appended.
CountedFlush ==
  /\ \A i \in FlushedNow : BeganIn(queue[i].id, queue[i].log_desc)
  /\ IF hist' = hist
       THEN open_txn' = OneUnitEach.open_txn /\ closed_txn' = OneUnitEach.closed_txn
       ELSE /\ open_txn' = [switch_files_maybe(OneUnitEach).open_txn
                              EXCEPT ![current_fd'] = @ + 1]
            /\ closed_txn' = switch_files_maybe(OneUnitEach).closed_txn

\* The same with the counters of the file written to compared with what they
\* were when the operation was called.
ClaimedAppend ==
  CASE Appended_h.e.type = kEntryTypeTxnBegin ->
         open_txn'[Appended_h.fd] = open_txn[Appended_h.fd] + 1
    [] Appended_h.e.type = kEntryTypeTxnAbort ->
         /\ BeganIn(Appended_h.e.txn_id, Appended_h.fd)
         /\ open_txn' = [open_txn EXCEPT ![Appended_h.fd] = @ - 1]
         /\ closed_txn' = [closed_txn EXCEPT ![Appended_h.fd] = @ + 1]
    [] Appended_h.e.type = kEntryTypeTxnCommit ->
         open_txn' = open_txn /\ closed_txn' = closed_txn
    [] Appended_h.e.type \in {kEntryTypeInsert, kEntryTypeErase}
         /\ Appended_h.e.txn_id # 0 ->
         open_txn' = open_txn /\ closed_txn' = closed_txn
    [] Appended_h.e.type \in {kEntryTypeInsert, kEntryTypeErase}
         /\ Appended_h.e.txn_id = 0 ->
         closed_txn'[Appended_h.fd] = closed_txn[Appended_h.fd] + 1
    [] OTHER -> TRUE

\* C28 as claimed: append_txn_begin adds 1 to open_txn of the file it selects;
\* append_txn_abort and transaction_flushed each move exactly one unit from
\* open_txn to closed_txn of the file where the transaction began;
\* append_txn_commit and insert/erase of a named transaction change no
\* counter; insert/erase of a temporary transaction adds 1 to closed_txn of the
\* file it is written to; and no counter ever goes below zero.
C28_CounterAccountingAsClaimed ==
  /\ [][(phase = "running" /\ phase' = "running") =>
          IF Len(queue') < Len(queue) THEN CountedFlush
          ELSE IF Len(hist') = Len(hist) + 1 THEN ClaimedAppend
          ELSE TRUE]_vars
  /\ [](\A fd \in Fds : open_txn[fd] >= 0 /\ closed_txn[fd] >= 0)

\* C28 amended: the same, where the 1 that append_txn_begin and a temporary
\* insert/erase add is added to the counters as switch_files_maybe leaves
\* them: when the call recycles the file it selects, that file's counters are
\* reset to zero first, and no other counter changes.
C28_CounterAccounting ==
  /\ [][(phase = "running" /\ phase' = "running") =>
          IF Len(queue') < Len(queue) THEN CountedFlush
          ELSE IF Len(hist') = Len(hist) + 1 THEN CountedAppend
          ELSE TRUE]_vars
  /\ [](\A fd \in Fds : open_txn[fd] >= 0 /\ closed_txn[fd] >= 0)

\* C28 witness: a named transaction was aborted, another committed and
\* flushed, an insert or erase was made without a transaction, and a file was
\* recycled by a rotation.
C28_Witness ==
  /\ phase = "running"
  /\ trunc # {}
  /\ \E a \in 1..Len(hist) : hist[a].e.type = kEntryTypeTxnAbort
  /\ \E c \in 1..Len(hist) :
       /\ hist[c].e.type = kEntryTypeTxnCommit
       /\ \A i \in 1..Len(queue) : queue[i].id # hist[c].e.txn_id
  /\ \E t \in 1..Len(hist) :
       hist[t].e.type \in {kEntryTypeInsert, kEntryTypeErase} /\ hist[t].e.txn_id = 0

\* ------------------------------------------------------------ flush policy
\* The journal an append works on: append_txn_begin and an insert or erase of
\* a temporary transaction call switch_files_maybe first.
FlushBase ==
  IF \/ Appended_h.e.type = kEntryTypeTxnBegin
     \/ Appended_h.e.type \in {kEntryTypeInsert, kEntryTypeErase} /\ Appended_h.e.txn_id = 0
    THEN switch_files_maybe(J)
    ELSE J

\* The buffer of the file written to, with the new entry appended.
WithEntry == Append(FlushBase.buffer[Appended_h.fd], Appended_h.e)

\* The whole buffer was written to the file.
BufferWritten ==
  /\ buffer'[Appended_h.fd] = <<>>
  /\ files'[Appended_h.fd] = FlushBase.files[Appended_h.fd] \o WithEntry
  /\ fsize'[Appended_h.fd] = FlushBase.fsize[Appended_h.fd] + Bytes(WithEntry)

\* Nothing was written: the entry stays in the buffer.
BufferKept ==
  /\ buffer'[Appended_h.fd] = WithEntry
  /\ files'[Appended_h.fd] = FlushBase.files[Appended_h.fd]
  /\ fsize'[Appended_h.fd] = FlushBase.fsize[Appended_h.fd]

\* A soft flush writes only when the buffer exceeds the high-water mark.
SoftFlushed == IF Bytes(WithEntry) > kBufferLimit THEN BufferWritten ELSE BufferKept

Synced == durable'[Appended_h.fd] = fsize'[Appended_h.fd]

NotSynced == durable' = FlushBase.durable

\* A step that appends a TxnBegin, a TxnAbort, an Insert or an Erase.
SoftOnly ==
  Appended_h.e.type \in {kEntryTypeTxnBegin, kEntryTypeTxnAbort,
                         kEntryTypeInsert, kEntryTypeErase}
    => SoftFlushed /\ NotSynced

\* C29 as claimed: append_txn_commit performs a hard flush with fsync if and
\* only if the fsync flag is enabled and only a soft flush otherwise;
\* append_txn_begin, append_txn_abort, append_insert and append_erase only
\* soft-flush and never fsync.
C29_FlushPolicyAsClaimed ==
  [][(phase = "running" /\ phase' = "running"
      /\ Len(queue') >= Len(queue) /\ Len(hist') = Len(hist) + 1) =>
        /\ Appended_h.e.type = kEntryTypeTxnCommit =>
             IF fsync_flag THEN BufferWritten /\ Synced ELSE SoftFlushed /\ NotSynced
        /\ SoftOnly]_vars

\* C29 amended: append_txn_commit always writes the whole buffer of the
\* transaction's file, however small, and calls fsync if and only if the fsync
\* flag is enabled; append_txn_begin, append_txn_abort, append_insert and
\* append_erase only soft-flush and never fsync.
C29_FlushPolicy ==
  [][(phase = "running" /\ phase' = "running"
      /\ Len(queue') >= Len(queue) /\ Len(hist') = Len(hist) + 1) =>
        /\ Appended_h.e.type = kEntryTypeTxnCommit =>
             BufferWritten /\ (IF fsync_flag THEN Synced ELSE NotSynced)
        /\ SoftOnly]_vars

\* C29 witness: without fsync, a file of no more than the high-water mark holds
\* a TxnCommit entry (written by a commit whose buffer was below the mark),
\* nothing of it is durable, and a later entry waits in its buffer.
C29_Witness ==
  /\ phase = "running"
  /\ ~fsync_flag
  /\ \E fd \in Fds :
       /\ fsize[fd] <= kBufferLimit
       /\ durable[fd] = 0
       /\ buffer[fd] # <<>>
       /\ \E i \in 1..Len(files[fd]) : files[fd][i].type = kEntryTypeTxnCommit

====
